---- MODULE Spec2Model ----
(***************************************************************************)
(* Offline-first synchronisation of papermrks: the per-device Dexie store, *)
(* the SyncEngine cycle (src/src/helpers/db-sync.ts), the AutoSyncManager  *)
(* / useSync triggers, and the remote authority's sync route               *)
(* (/api/bookmarks/sync).                                                  *)
(*                                                                         *)
(* One owner.  The device under study runs engines over one local store;   *)
(* a second device is present only through the chunks it POSTs.            *)
(* Every awaited store transaction or network exchange of the cycle is one *)
(* action; a chunk's POST, the server's transaction and the client's       *)
(* reconciliation (or failure handling) form one action, and so do the     *)
(* pull's GET and its merge transaction: the steps in between touch        *)
(* disjoint state and commute with every other action of the model.        *)
(*                                                                         *)
(* Time is the value of Date.now() in units in which only the order of     *)
(* timestamps matters.  A local write reads a clock that has moved on      *)
(* since the previous write; a step of the cycle stamps the current value. *)
(* Tick lets time pass with nothing written.                               *)
(***************************************************************************)
EXTENDS Integers, Sequences, FiniteSets, TLC

\* ---------------------------------------------------------------- bounds
MaxTime  == 4      \* the clock runs 1..MaxTime
MaxQueue == 1      \* rows the retry queue may hold
MaxRaces == 1      \* user / other-device writes while one cycle is in flight

\* ------------------------------------------------- options of the engine
ChunkSize    == 1  \* options.chunkSize (the engine is built with 1)
MaxRetriesOpt == 1 \* options.maxRetries
RetryDelayMs == 1  \* options.retryDelayMs
MaxTimers == 2     \* interval timer handles the browser can hold at once

\* ------------------------------------------------------------ identifiers
LocalItemIds == {"i1", "i2"}       \* UUIDs this device draws in addItem
OtherItemIds == {"o1"}             \* a UUID drawn by the other device
ItemIds      == LocalItemIds \cup OtherItemIds
DefaultCollId == "c1"              \* UUID of this device's default collection
ServerCollId  == "cS"              \* id the server gives the default it creates
UserCollIds  == {"c2"}             \* a UUID this device draws in addCollection
CollIds      == {DefaultCollId, ServerCollId} \cup UserCollIds
Names        == {"Work", "Play"}   \* names the user types for a collection
TagIds       == {"t1", "t2"}       \* UUIDs drawn for tags
Calls        == {"a", "b"}         \* addTagsToItem calls that run concurrently
Engines      == {"e1", "e2"}
Statuses     == {"pending", "syncing", "synced", "error"}
DefaultSlug  == "bookmarks"
TagSlug      == [t \in TagIds |-> "x"]

IdRank(id) ==
  CASE id = "i1" -> 1 [] id = "i2" -> 2 [] id = "o1" -> 3 [] OTHER -> 4

\* --------------------------------------------------------------- records
\* A table row; ex = FALSE is "no row under this key".
NoItem == [ex |-> FALSE, coll |-> DefaultCollId, title |-> "-", del |-> FALSE,
           st |-> "pending", lsa |-> 0, err |-> FALSE, upd |-> 0]
NoColl == [ex |-> FALSE, slug |-> "-", isDefault |-> FALSE, del |-> FALSE,
           st |-> "pending", lsa |-> 0, err |-> FALSE, upd |-> 0]
NoTag  == [ex |-> FALSE, slug |-> "-", del |-> FALSE,
           st |-> "pending", lsa |-> 0, err |-> FALSE, upd |-> 0, created |-> 0]
NoRItem == [ex |-> FALSE, coll |-> DefaultCollId, title |-> "-", upd |-> 0]
NoRColl == [ex |-> FALSE, slug |-> "-", isDefault |-> FALSE, upd |-> 0]
NoRTag  == [ex |-> FALSE, slug |-> "-", upd |-> 0, created |-> 0]
Links   == ItemIds \X TagIds

EmptyPayload ==
  [items |-> << >>, collections |-> {}, tags |-> {}, itemTags |-> {},
   deletions |-> [itemIds |-> {}, collectionIds |-> {}, tagIds |-> {}]]
ZeroTotals ==
  [items |-> 0, collections |-> 0, tags |-> 0,
   itemsDeleted |-> 0, collectionsDeleted |-> 0, tagsDeleted |-> 0]
NoResult ==
  [kind |-> "none", success |-> FALSE, counts |-> ZeroTotals, errors |-> << >>,
   warnings |-> << >>]
\* What happened in the cycle in flight: writes by others so far (races), the
\* pull was issued / succeeded, a store operation threw, each chunk's outcome,
\* the items that were pending (pend) or soft-deleted and pending (dels)
\* when sync() was called, and the items whose queued retry the cycle's
\* retry pass found due (due).
NoCycle == [races |-> 0, pullOk |-> FALSE, pulled |-> FALSE, threw |-> FALSE,
            log |-> << >>, pend |-> {}, dels |-> {}, due |-> {}]
\* An AutoSyncManager after its constructor.  intervalId: 0 is null; timers:
\* the interval timers of this manager the browser holds; listening: its
\* online and offline handlers are registered; stopped, destroyed: stop() or
\* destroy() was called, with no start() since.
NewManager == [intervalId |-> 0, timers |-> {}, isOnline |-> TRUE,
               listening |-> TRUE, stopped |-> FALSE, destroyed |-> FALSE]
\* ensureDefaultCollection's latch.  latch: the map holds a promise for the
\* owner; running: its transaction has not settled; waiters: the callers
\* that were handed the promise; served: the callers the last settled
\* promise was handed to; got: what each caller's await returned.
NoEnsure == [latch |-> FALSE, running |-> FALSE, waiters |-> {}, served |-> {},
             got |-> [k \in Calls |-> "none"]]
\* deleteCollection between its reads and its transaction: the collection,
\* the default it found, the items it read and its Date.now().
NoDelOp == [phase |-> "idle", id |-> DefaultCollId, def |-> DefaultCollId,
            move |-> {}, stamp |-> 0]
\* addTagsToItem after its lookup: the item and the tag found under the
\* slug ("none": no tag).
NoTagOp == [phase |-> "idle", item |-> "i1", found |-> "none"]
NoOpResult == [op |-> "none", success |-> FALSE, error |-> "-"]
Failure(op, msg) == [op |-> op, success |-> FALSE, error |-> msg]
Success(op) == [op |-> op, success |-> TRUE, error |-> "-"]
RejectedResult ==
  [kind |-> "done", success |-> FALSE, counts |-> ZeroTotals,
   errors |-> <<"Sync already in progress">>, warnings |-> << >>]

VARIABLES
  \* local Dexie store (BookmarkDatabase)
  items, collections, tags, itemTags, syncQueue,
  \* remote authority (prisma tables of the owner)
  rItems, rCollections, rTags, rItemTags,
  \* Date.now()
  now,
  \* SyncEngine instances: the guard, the position in sync(), its locals
  syncInProgress, pc, payload, chunks, idx, errors, warnings, totalSynced,
  \* what sync() last returned to a caller
  result,
  \* the AutoSyncManager useSync currently holds
  mgr,
  \* history of the cycle in flight; fresh: the last cycle to return was clean
  \* and nothing has been written since
  cyc, fresh,
  \* UUIDs addItem and addCollection have drawn so far (none is drawn twice)
  minted,
  \* useCollections: the deleteCollection call in flight, and what the last
  \* collection operation returned
  delOp, opResult,
  \* addTagsToItem calls between their tag lookup and their writes
  tagOp,
  \* ensureDefaultCollectionPromises of the owner and the callers awaiting it
  ensure,
  \* the AutoSyncManager of each engine: its fields and the browser's timers
  auto,
  \* the rows of the server's item and item-tag tables that belong to
  \* another user
  otherItems, otherItemTags

localVars  == <<items, collections, tags, itemTags>>
remoteVars == <<rItems, rCollections, rTags, rItemTags>>
engineVars == <<syncInProgress, pc, payload, chunks, idx, errors, warnings,
               totalSynced>>
vars == <<items, collections, tags, itemTags, syncQueue,
          rItems, rCollections, rTags, rItemTags, now,
          syncInProgress, pc, payload, chunks, idx, errors, totalSynced,
          result, mgr, cyc, fresh, minted, delOp, opResult, tagOp,
          otherItems, otherItemTags, warnings, ensure, auto>>
collVars == <<delOp, opResult, tagOp, ensure>>

Init ==
  /\ items = [i \in ItemIds |-> NoItem]
  /\ collections = [c \in CollIds |-> NoColl]
  /\ tags = [t \in TagIds |-> NoTag]
  /\ itemTags = [l \in Links |-> "none"]
  /\ syncQueue = << >>
  /\ rItems = [i \in ItemIds |-> NoRItem]
  /\ rCollections = [c \in CollIds |-> NoRColl]
  /\ rTags = [t \in TagIds |-> NoRTag]
  /\ rItemTags = {}
  /\ otherItems = [i \in ItemIds |-> NoRItem]
  /\ otherItemTags = {}
  /\ now = 1
  /\ syncInProgress = [e \in Engines |-> FALSE]
  /\ pc = [e \in Engines |-> "idle"]
  /\ payload = [e \in Engines |-> EmptyPayload]
  /\ chunks = [e \in Engines |-> << >>]
  /\ idx = [e \in Engines |-> 1]
  /\ errors = [e \in Engines |-> << >>]
  /\ warnings = [e \in Engines |-> << >>]
  /\ totalSynced = [e \in Engines |-> ZeroTotals]
  /\ result = [e \in Engines |-> NoResult]
  /\ mgr = "e1"
  /\ cyc = [e \in Engines |-> NoCycle]
  /\ fresh = FALSE
  /\ minted = {}
  /\ delOp = NoDelOp
  /\ opResult = NoOpResult
  /\ tagOp = [k \in Calls |-> NoTagOp]
  /\ ensure = NoEnsure
  /\ auto = [m \in Engines |-> NewManager]

\* ------------------------------------------------------------- the clock
Tick ==
  /\ now < MaxTime
  /\ now' = now + 1
  /\ UNCHANGED <<items, collections, tags, itemTags, syncQueue,
                 rItems, rCollections, rTags, rItemTags, otherItems, otherItemTags,
                 syncInProgress, pc, payload, chunks, idx, errors, warnings, totalSynced,
                 result, mgr, cyc, fresh, minted, collVars, auto>>

\* A write by the user or by another device: cycles in flight are no longer
\* undisturbed, and the last clean cycle is no longer the latest event.
Disturb ==
  /\ \A e \in Engines : syncInProgress[e] => cyc[e].races < MaxRaces
  /\ cyc' = [e \in Engines |->
               IF syncInProgress[e] THEN [cyc[e] EXCEPT !.races = @ + 1]
               ELSE cyc[e]]
  /\ fresh' = FALSE

\* Date.now() of a write: the clock has moved on since the last write.
Write ==
  /\ now < MaxTime
  /\ now' = now + 1

\* --------------------------------------------------- local user operations
HasDefault(cs) == \E c \in CollIds : cs[c].ex /\ cs[c].isDefault /\ ~cs[c].del

\* A transaction that adds the default without looking for one.
insertDefaultCollection(cs, stamp) ==
  [cs EXCEPT ![DefaultCollId] =
     [ex |-> TRUE, slug |-> DefaultSlug, isDefault |-> TRUE, del |-> FALSE,
      st |-> "pending", lsa |-> 0, err |-> FALSE, upd |-> stamp]]

\* ensureDefaultCollection: the store's collections once a default exists.
ensureDefaultCollection(cs, stamp) ==
  IF HasDefault(cs) THEN cs
  ELSE [cs EXCEPT ![DefaultCollId] =
          [ex |-> TRUE, slug |-> DefaultSlug, isDefault |-> TRUE, del |-> FALSE,
           st |-> "pending", lsa |-> 0, err |-> FALSE, upd |-> stamp]]

\* A hook calls ensureDefaultCollection: it is handed the promise in the
\* map, or starts the transaction and puts its promise in the map.
EnsureCall(k) ==
  /\ k \notin ensure.waiters
  /\ ensure' = IF ensure.latch
                 THEN [ensure EXCEPT !.waiters = @ \cup {k}, !.got[k] = "none"]
                 ELSE [ensure EXCEPT !.latch = TRUE, !.running = TRUE,
                                     !.waiters = @ \cup {k}, !.got[k] = "none"]
  /\ UNCHANGED <<items, collections, tags, itemTags, syncQueue, rItems,
                 rCollections, rTags, rItemTags, otherItems, otherItemTags, now,
                 syncInProgress, pc, payload, chunks, idx, errors, warnings,
                 totalSynced, result, mgr, auto, cyc, fresh, minted, delOp, opResult,
                 tagOp>>

\* The transaction commits: the finally removes the promise from the map and
\* every caller's await returns the collection.
EnsureCommits ==
  /\ ensure.running
  /\ collections' = ensureDefaultCollection(collections, now)
  /\ \E d \in {c \in CollIds : /\ collections'[c].ex
                                /\ collections'[c].isDefault
                                /\ ~collections'[c].del} :
       ensure' = [latch |-> FALSE, running |-> FALSE, waiters |-> {},
                  served |-> ensure.waiters,
                  got |-> [k \in Calls |->
                             IF k \in ensure.waiters THEN d ELSE ensure.got[k]]]
  /\ UNCHANGED <<items, tags, itemTags, syncQueue, rItems,
                 rCollections, rTags, rItemTags, otherItems, otherItemTags, now,
                 syncInProgress, pc, payload, chunks, idx, errors, warnings,
                 totalSynced, result, mgr, auto, cyc, fresh, minted, delOp, opResult,
                 tagOp>>

\* The transaction rejects: the finally removes the promise from the map and
\* every caller's await throws.
EnsureRejects ==
  /\ ensure.running
  /\ ensure' = [latch |-> FALSE, running |-> FALSE, waiters |-> {},
                served |-> ensure.waiters,
                got |-> [k \in Calls |->
                           IF k \in ensure.waiters THEN "rejected"
                           ELSE ensure.got[k]]]
  /\ UNCHANGED <<items, collections, tags, itemTags, syncQueue, rItems,
                 rCollections, rTags, rItemTags, otherItems, otherItemTags, now,
                 syncInProgress, pc, payload, chunks, idx, errors, warnings,
                 totalSynced, result, mgr, auto, cyc, fresh, minted, delOp, opResult,
                 tagOp>>

\* addItem: ensure the default collection, then add the optimistic item.
AddItem(i) ==
  /\ i \in LocalItemIds \ minted
  /\ minted' = minted \cup {i}
  /\ collections' = ensureDefaultCollection(collections, now + 1)
  /\ \E c \in {d \in CollIds : collections'[d].ex /\ ~collections'[d].del} :
       items' = [items EXCEPT ![i] =
                   [ex |-> TRUE, coll |-> c, title |-> "a", del |-> FALSE,
                    st |-> "pending", lsa |-> 0, err |-> FALSE, upd |-> now + 1]]
  /\ Disturb
  /\ Write
  /\ UNCHANGED <<tags, itemTags, syncQueue, rItems, rCollections, rTags,
                 rItemTags, otherItems, otherItemTags, syncInProgress, pc, payload, chunks, idx,
                 errors, warnings, totalSynced, result, mgr, collVars, auto>>

\* processBookmarkViaAPI, metadata write (and its fallback): new display
\* fields and updatedAt; syncStatus is not part of the update.
EnrichItem(i) ==
  /\ items[i].ex
  /\ items[i].title = "a"
  /\ items' = [items EXCEPT ![i].title = "b", ![i].upd = now + 1]
  /\ Disturb
  /\ Write
  /\ UNCHANGED <<collections, tags, itemTags, syncQueue, rItems, rCollections,
                 rTags, rItemTags, otherItems, otherItemTags, syncInProgress, pc, payload, chunks,
                 idx, errors, warnings, totalSynced, result, mgr, minted, collVars, auto>>

\* "Mark as ready to sync" (addItem, bulkTag, processBookmarkViaAPI).
MarkReady(i) ==
  /\ items[i].ex
  /\ items' = [items EXCEPT ![i].st = "pending", ![i].upd = now + 1]
  /\ Disturb
  /\ Write
  /\ UNCHANGED <<collections, tags, itemTags, syncQueue, rItems, rCollections,
                 rTags, rItemTags, otherItems, otherItemTags, syncInProgress, pc, payload, chunks,
                 idx, errors, warnings, totalSynced, result, mgr, minted, collVars, auto>>

\* addTagsToItem with one tag name: get or create the tag by slug, drop the
\* item's links, add the new link as pending.
TagItem(i, t) ==
  /\ items[i].ex
  /\ LET known == {u \in TagIds : tags[u].ex /\ tags[u].slug = TagSlug[t]}
         tid == IF known = {} THEN t ELSE CHOOSE u \in known : TRUE
     IN /\ known = {} => ~tags[t].ex
        /\ tags' = IF known # {} THEN tags
                   ELSE [tags EXCEPT ![t] =
                           [ex |-> TRUE, slug |-> TagSlug[t], del |-> FALSE,
                            st |-> "pending", lsa |-> 0, err |-> FALSE,
                            upd |-> now + 1, created |-> now + 1]]
        /\ itemTags' = [l \in Links |->
                          IF l[1] # i THEN itemTags[l]
                          ELSE IF l[2] = tid THEN "pending" ELSE "none"]
  /\ Disturb
  /\ Write
  /\ UNCHANGED <<items, collections, syncQueue, rItems, rCollections, rTags,
                 rItemTags, otherItems, otherItemTags, syncInProgress, pc, payload, chunks, idx,
                 errors, warnings, totalSynced, result, mgr, minted, collVars, auto>>

\* deleteItems: soft delete.
DeleteItem(i) ==
  /\ items[i].ex
  /\ ~items[i].del
  /\ items' = [items EXCEPT ![i].del = TRUE, ![i].st = "pending", ![i].upd = now + 1]
  /\ Disturb
  /\ Write
  /\ UNCHANGED <<collections, tags, itemTags, syncQueue, rItems, rCollections,
                 rTags, rItemTags, otherItems, otherItemTags, syncInProgress, pc, payload, chunks,
                 idx, errors, warnings, totalSynced, result, mgr, minted, collVars, auto>>

\* ------------------------------------------- local collection operations
slugify(name) ==
  CASE name = "Work" -> "work" [] name = "Play" -> "play" [] OTHER -> "n-a"

\* generateLocalUniqueSlug: the base slug, or, when a collection that is not
\* deleted has it, the base with the number after the largest one in use.
generateLocalUniqueSlug(cs, name) ==
  LET base == slugify(name)
      taken == {cs[c].slug : c \in {d \in CollIds : cs[d].ex /\ ~cs[d].del}}
  IN IF base \notin taken THEN base
     ELSE IF base \o "-2" \in taken THEN base \o "-3"
     ELSE IF base \o "-1" \in taken THEN base \o "-2"
     ELSE base \o "-1"

\* addCollection(name)
AddCollection(c, name) ==
  /\ c \in UserCollIds \ minted
  /\ minted' = minted \cup {c}
  /\ collections' = [collections EXCEPT ![c] =
       [ex |-> TRUE, slug |-> generateLocalUniqueSlug(collections, name),
        isDefault |-> FALSE, del |-> FALSE, st |-> "pending", lsa |-> 0,
        err |-> FALSE, upd |-> now + 1]]
  /\ opResult' = Success("addCollection")
  /\ Disturb
  /\ Write
  /\ UNCHANGED <<items, tags, itemTags, syncQueue, rItems, rCollections, rTags,
                 rItemTags, otherItems, otherItemTags, syncInProgress, pc, payload, chunks, idx,
                 errors, warnings, totalSynced, result, mgr, ensure, auto, delOp, tagOp>>

\* A call of a collection operation that returns a failure: nothing is
\* written.
Rejects(op, msg) ==
  /\ opResult' = Failure(op, msg)
  /\ UNCHANGED <<items, collections, tags, itemTags, syncQueue, rItems,
                 rCollections, rTags, rItemTags, otherItems, otherItemTags, now, syncInProgress, pc,
                 payload, chunks, idx, errors, warnings, totalSynced, result, mgr, ensure, auto, cyc,
                 fresh, minted, delOp, tagOp>>

\* The rename itself: name and slug, pending, a new updatedAt.
Rename(c, name) ==
  /\ collections' = [collections EXCEPT ![c].slug = slugify(name),
                                        ![c].st = "pending",
                                        ![c].upd = now + 1]
  /\ opResult' = Success("updateCollection")
  /\ Disturb
  /\ Write
  /\ UNCHANGED <<items, tags, itemTags, syncQueue, rItems, rCollections, rTags,
                 rItemTags, otherItems, otherItemTags, syncInProgress, pc, payload, chunks, idx,
                 errors, warnings, totalSynced, result, mgr, ensure, auto, minted, delOp, tagOp>>

\* An updateCollection without the test for the default collection.
updateCollectionUnguarded(c, name) ==
  IF ~collections[c].ex \/ collections[c].del
    THEN Rejects("updateCollection", "Collection not found")
    ELSE Rename(c, name)

\* updateCollection(id, name)
updateCollection(c, name) ==
  IF ~collections[c].ex \/ collections[c].del
    THEN Rejects("updateCollection", "Collection not found")
  ELSE IF collections[c].isDefault
    THEN Rejects("updateCollection", "Cannot rename default collection")
  ELSE Rename(c, name)

\* deleteCollection(id) up to its transaction: the checks, Date.now() and the
\* read of the items to move.  The call reads the clock as it stands; the
\* writes that follow it read a later one.
DeleteCollectionRead(c) ==
  /\ delOp.phase = "idle"
  /\ IF ~collections[c].ex \/ collections[c].del
       THEN Rejects("deleteCollection", "Collection not found")
     ELSE IF collections[c].isDefault
       THEN Rejects("deleteCollection", "Cannot delete default collection")
     ELSE IF ~HasDefault(collections)
       THEN Rejects("deleteCollection", "Default collection not found")
     ELSE /\ \E d \in {x \in CollIds : collections[x].ex /\ collections[x].isDefault
                                         /\ ~collections[x].del} :
               delOp' = [phase |-> "write", id |-> c, def |-> d,
                         move |-> {i \in ItemIds : items[i].ex /\ items[i].coll = c
                                                    /\ ~items[i].del},
                         stamp |-> now]
          /\ UNCHANGED <<items, collections, tags, itemTags, syncQueue, rItems,
                         rCollections, rTags, rItemTags, otherItems, otherItemTags, now, syncInProgress, pc,
                         payload, chunks, idx, errors, warnings, totalSynced, result,
                         mgr, ensure, auto, cyc, fresh, minted, opResult, tagOp>>

\* deleteCollection, its transaction: the items read are moved to the
\* default found, the collection is soft-deleted.  An update of a key that
\* has no row writes nothing.
DeleteCollectionWrite ==
  /\ delOp.phase = "write"
  /\ items' = [i \in ItemIds |->
                 IF i \in delOp.move /\ items[i].ex
                   THEN [items[i] EXCEPT !.coll = delOp.def, !.st = "pending",
                                         !.upd = delOp.stamp]
                   ELSE items[i]]
  /\ collections' = [c \in CollIds |->
                 IF c = delOp.id /\ collections[c].ex
                   THEN [collections[c] EXCEPT !.del = TRUE, !.st = "pending",
                                               !.upd = delOp.stamp]
                   ELSE collections[c]]
  /\ delOp' = NoDelOp
  /\ opResult' = Success("deleteCollection")
  /\ Disturb
  /\ UNCHANGED <<tags, itemTags, syncQueue, rItems, rCollections, rTags,
                 rItemTags, otherItems, otherItemTags, now, syncInProgress, pc, payload, chunks, idx,
                 errors, warnings, totalSynced, result, mgr, ensure, auto, minted, tagOp>>

\* ------------------------------------------- addTagsToItem, step by step
\* addTagsToItem with one tag name, up to the answer of its lookup:
\* db.tags.where("slug").equals(slug).first().
TagLookup(k, i) ==
  /\ tagOp[k].phase = "idle"
  /\ items[i].ex
  /\ LET known == {u \in TagIds : tags[u].ex /\ tags[u].slug = TagSlug[u]}
     IN tagOp' = [tagOp EXCEPT ![k] =
          [phase |-> "looked", item |-> i,
           found |-> IF known = {} THEN "none" ELSE CHOOSE u \in known : TRUE]]
  /\ UNCHANGED <<items, collections, tags, itemTags, syncQueue, rItems,
                 rCollections, rTags, rItemTags, otherItems, otherItemTags, now, syncInProgress, pc,
                 payload, chunks, idx, errors, warnings, totalSynced, result, mgr, ensure, auto, cyc,
                 fresh, minted, delOp, opResult>>

\* addTagsToItem after the lookup: the tag is created under a new UUID when
\* none was found, the item's links are dropped and the new link is added.
TagApply(k, t) ==
  /\ tagOp[k].phase = "looked"
  /\ LET none == tagOp[k].found = "none"
         tid == IF none THEN t ELSE tagOp[k].found
     IN /\ none => t \in TagIds \ minted
        /\ ~none => t = tid
        /\ minted' = IF none THEN minted \cup {t} ELSE minted
        /\ tags' = IF ~none THEN tags
                   ELSE [tags EXCEPT ![t] =
                           [ex |-> TRUE, slug |-> TagSlug[t], del |-> FALSE,
                            st |-> "pending", lsa |-> 0, err |-> FALSE,
                            upd |-> now + 1, created |-> now + 1]]
        /\ itemTags' = [l \in Links |->
                          IF l[1] # tagOp[k].item THEN itemTags[l]
                          ELSE IF l[2] = tid THEN "pending" ELSE "none"]
  /\ tagOp' = [tagOp EXCEPT ![k] = NoTagOp]
  /\ Disturb
  /\ Write
  /\ UNCHANGED <<items, collections, syncQueue, rItems, rCollections, rTags,
                 rItemTags, otherItems, otherItemTags, syncInProgress, pc, payload, chunks, idx,
                 errors, warnings, totalSynced, result, mgr, ensure, auto, delOp, opResult>>

\* ------------------------------------------------------- Change Collector
RECURSIVE SortIds(_)
SortIds(S) ==
  IF S = {} THEN << >>
  ELSE LET m == CHOOSE x \in S : \A y \in S : IdRank(x) <= IdRank(y)
       IN <<m>> \o SortIds(S \ {m})

\* A collector that selects pending rows only.
PendingOnly(row) == row.ex /\ row.st = "pending"

Unsynced(row) == row.ex /\ row.st \in {"pending", "error"}

ItemSnap(i) ==
  [id |-> i, coll |-> items[i].coll, title |-> items[i].title, upd |-> items[i].upd]
CollSnap(c) ==
  [id |-> c, slug |-> collections[c].slug, isDefault |-> collections[c].isDefault,
   upd |-> collections[c].upd]
TagSnap(t) ==
  [id |-> t, slug |-> tags[t].slug, upd |-> tags[t].upd, created |-> tags[t].created]

\* gatherPendingData: the index on syncStatus yields "error" rows before
\* "pending" rows, each group in key order.
gatherPendingData ==
  LET act(st) == {i \in ItemIds : items[i].ex /\ items[i].st = st /\ ~items[i].del}
      ids == SortIds(act("error")) \o SortIds(act("pending"))
  IN [items |-> [k \in 1..Len(ids) |-> ItemSnap(ids[k])],
      collections |-> {CollSnap(c) : c \in {d \in CollIds :
                          Unsynced(collections[d]) /\ ~collections[d].del}},
      tags |-> {TagSnap(t) : t \in {u \in TagIds : Unsynced(tags[u]) /\ ~tags[u].del}},
      itemTags |-> {l \in Links : itemTags[l] \in {"pending", "error"}},
      deletions |->
        [itemIds |-> {i \in ItemIds : Unsynced(items[i]) /\ items[i].del},
         collectionIds |-> {c \in CollIds : Unsynced(collections[c]) /\ collections[c].del},
         tagIds |-> {t \in TagIds : Unsynced(tags[t]) /\ tags[t].del}]]

isPayloadEmpty(p) ==
  /\ Len(p.items) = 0
  /\ p.collections = {}
  /\ p.tags = {}
  /\ p.itemTags = {}
  /\ p.deletions.itemIds = {}
  /\ p.deletions.collectionIds = {}
  /\ p.deletions.tagIds = {}

\* --------------------------------------------------------- Batch Splitter
Min(a, b) == IF a <= b THEN a ELSE b

chunkPayload(p) ==
  LET n == Len(p.items)
      totalSize == n + Cardinality(p.collections) + Cardinality(p.tags)
                     + Cardinality(p.itemTags)
      count == (n + ChunkSize - 1) \div ChunkSize
  IN IF totalSize <= ChunkSize THEN <<p>>
     ELSE [k \in 1..count |->
             [items |-> SubSeq(p.items, (k - 1) * ChunkSize + 1,
                               Min(k * ChunkSize, n)),
              collections |-> IF k = 1 THEN p.collections ELSE {},
              tags |-> IF k = 1 THEN p.tags ELSE {},
              itemTags |-> IF k = 1 THEN p.itemTags ELSE {},
              deletions |-> IF k = 1 THEN p.deletions
                            ELSE [itemIds |-> {}, collectionIds |-> {}, tagIds |-> {}]]]

SeqIds(q) == {q[k].id : k \in 1..Len(q)}

\* ------------------------------------- remote authority: POST /bookmarks/sync
\* deduplicateTags: the first tag of each slug.
deduplicateTags(ts) ==
  {t \in ts : \A u \in ts : u.slug = t.slug => IdRank(t.id) <= IdRank(u.id)}

\* Rows that go with a deleted item or tag (the link table's foreign keys).
CascadeLinks(ls, del) ==
  {l \in ls : l[1] \notin del.itemIds /\ l[2] \notin del.tagIds}

\* The prisma transaction of the POST handler on the remote tables, for one
\* chunk.  ok = FALSE: the transaction threw and is rolled back (status 500).
ServerPost(chunk) ==
  LET del == chunk.deletions
      \* 1. deletions
      ri0 == [i \in ItemIds |-> IF i \in del.itemIds THEN NoRItem ELSE rItems[i]]
      rc0 == [c \in CollIds |->
                IF c \in del.collectionIds THEN NoRColl ELSE rCollections[c]]
      rt0 == [t \in TagIds |-> IF t \in del.tagIds THEN NoRTag ELSE rTags[t]]
      rl0 == CascadeLinks(rItemTags, del)
      \* deleteMany filters on userId; the links of a deleted tag go with it
      ol0 == {l \in otherItemTags : ~(l[2] \in del.tagIds /\ rTags[l[2]].ex)}
      \* 2. collections: upsert by (userId, slug), create under the local id
      bySlugC(col) == {c \in CollIds : rc0[c].ex /\ rc0[c].slug = col.slug}
      cloudId(col) ==
        IF bySlugC(col) # {} THEN CHOOSE c \in bySlugC(col) : TRUE ELSE col.id
      collConflict ==
        \E col \in chunk.collections :
          /\ bySlugC(col) = {}
          /\ \/ rc0[col.id].ex
             \/ \E o \in chunk.collections : o # col /\ o.slug = col.slug
      rc1 == [c \in CollIds |->
                LET hits == {col \in chunk.collections : cloudId(col) = c}
                IN IF hits = {} THEN rc0[c]
                   ELSE LET col == CHOOSE h \in hits : TRUE
                        IN IF rc0[c].ex THEN [rc0[c] EXCEPT !.upd = col.upd]
                           ELSE [ex |-> TRUE, slug |-> col.slug,
                                 isDefault |-> col.isDefault, upd |-> col.upd]]
      \* 3. tags: deduplicate, upsert by (userId, slug)
      uniqueTags == deduplicateTags(chunk.tags)
      bySlugT(tag) == {t \in TagIds : rt0[t].ex /\ rt0[t].slug = tag.slug}
      tagCloudId(tag) ==
        IF bySlugT(tag) # {} THEN CHOOSE t \in bySlugT(tag) : TRUE ELSE tag.id
      tagConflict == \E tag \in uniqueTags : bySlugT(tag) = {} /\ rt0[tag.id].ex
      rt1 == [t \in TagIds |->
                LET hits == {tag \in uniqueTags : tagCloudId(tag) = t}
                IN IF hits = {} THEN rt0[t]
                   ELSE LET tag == CHOOSE h \in hits : TRUE
                        IN IF rt0[t].ex THEN [rt0[t] EXCEPT !.upd = tag.upd]
                           ELSE [ex |-> TRUE, slug |-> tag.slug, upd |-> tag.upd,
                                 created |-> tag.created]]
      \* 4. items: resolve the collection, upsert by id
      its == chunk.items
      inMap(it) == \E col \in chunk.collections : col.id = it.coll
      defaults == {c \in CollIds : rc1[c].ex /\ rc1[c].isDefault}
      needsCreate(it) == ~inMap(it) /\ ~rc1[it.coll].ex /\ defaults = {}
      creators == {k \in 1..Len(its) : needsCreate(its[k])}
      defConflict ==
        /\ creators # {}
        /\ \/ Cardinality(creators) > 1
           \/ \E c \in CollIds : rc1[c].ex /\ rc1[c].slug = DefaultSlug
           \/ rc1[ServerCollId].ex
      rc2 == IF creators = {} THEN rc1
             ELSE [rc1 EXCEPT ![ServerCollId] =
                     [ex |-> TRUE, slug |-> DefaultSlug, isDefault |-> TRUE,
                      upd |-> now]]
      validCollectionId(it) ==
        IF inMap(it)
          THEN cloudId(CHOOSE col \in chunk.collections : col.id = it.coll)
        ELSE IF rc1[it.coll].ex THEN it.coll
        ELSE IF defaults # {} THEN CHOOSE c \in defaults : TRUE
        ELSE ServerCollId
      \* upsert where { id }: a row of that id is updated whoever owns it
      ri1 == [i \in ItemIds |->
                IF i \in SeqIds(its) /\ ~otherItems[i].ex
                  THEN LET it == its[CHOOSE k \in 1..Len(its) : its[k].id = i]
                       IN [ex |-> TRUE, coll |-> validCollectionId(it),
                           title |-> it.title, upd |-> it.upd]
                  ELSE ri0[i]]
      oi1 == [i \in ItemIds |->
                IF i \in SeqIds(its) /\ otherItems[i].ex
                  THEN LET it == its[CHOOSE k \in 1..Len(its) : its[k].id = i]
                       IN [otherItems[i] EXCEPT !.coll = validCollectionId(it),
                                                !.title = it.title,
                                                !.upd = it.upd]
                  ELSE otherItems[i]]
      \* 5. item-tag links of the items and tags of this payload
      validItemTags == {l \in chunk.itemTags :
                          l[1] \in SeqIds(its) /\ l[2] \in {t.id : t \in uniqueTags}}
      fkConflict == \E l \in validItemTags : ~rt1[l[2]].ex
      \* itemTag.deleteMany where { itemId in ... }, then createMany
      rl1 == IF validItemTags = {} THEN rl0
             ELSE {l \in rl0 : l[1] \notin {v[1] : v \in validItemTags}}
                    \cup {v \in validItemTags : ~otherItems[v[1]].ex}
      ol1 == IF validItemTags = {} THEN ol0
             ELSE {l \in ol0 : l[1] \notin {v[1] : v \in validItemTags}}
                    \cup {v \in validItemTags : otherItems[v[1]].ex}
      ok == ~(collConflict \/ tagConflict \/ defConflict \/ fkConflict)
  IN [ok |-> ok,
      rItems |-> IF ok THEN ri1 ELSE rItems,
      rCollections |-> IF ok THEN rc2 ELSE rCollections,
      rTags |-> IF ok THEN rt1 ELSE rTags,
      rItemTags |-> IF ok THEN rl1 ELSE rItemTags,
      otherItems |-> IF ok THEN oi1 ELSE otherItems,
      otherItemTags |-> IF ok THEN ol1 ELSE otherItemTags,
      ack |-> [synced |-> [items |-> SeqIds(its),
                           collections |-> {c.id : c \in chunk.collections},
                           tags |-> {t.id : t \in uniqueTags},
                           itemTags |-> chunk.itemTags],
               deleted |-> [items |-> del.itemIds,
                            collections |-> del.collectionIds,
                            tags |-> del.tagIds]]]

\* ------------------------------- remote authority: GET /bookmarks/sync?since
ServerGet(since) ==
  LET its == {i \in ItemIds : rItems[i].ex /\ rItems[i].upd > since}
  IN [items |-> its,
      collections |-> {c \in CollIds : rCollections[c].ex /\ rCollections[c].upd > since},
      tags |-> {t \in TagIds : rTags[t].ex /\ rTags[t].created > since},
      itemTags |-> {l \in rItemTags : l[1] \in its}]

\* -------------------------------------------------------------- Reconciler
\* Each returns the four entity tables after one Dexie transaction.
markAsSyncing(p) ==
  [items |-> [i \in ItemIds |->
                IF i \in SeqIds(p.items) /\ items[i].ex
                  THEN [items[i] EXCEPT !.st = "syncing"] ELSE items[i]],
   collections |-> [c \in CollIds |->
                IF c \in {x.id : x \in p.collections} /\ collections[c].ex
                  THEN [collections[c] EXCEPT !.st = "syncing"] ELSE collections[c]],
   tags |-> [t \in TagIds |->
                IF t \in {x.id : x \in p.tags} /\ tags[t].ex
                  THEN [tags[t] EXCEPT !.st = "syncing"] ELSE tags[t]],
   itemTags |-> [l \in Links |->
                IF l \in p.itemTags /\ itemTags[l] # "none"
                  THEN "syncing" ELSE itemTags[l]]]

\* An acknowledgement that leaves the row's syncError in place.
SyncedKeepsError(row) == [row EXCEPT !.st = "synced", !.lsa = now]

Synced(row) == [row EXCEPT !.st = "synced", !.lsa = now, !.err = FALSE]

markAsSynced(ack) ==
  [items |-> [i \in ItemIds |->
                IF i \in ack.deleted.items THEN NoItem
                ELSE IF i \in ack.synced.items /\ items[i].ex THEN Synced(items[i])
                ELSE items[i]],
   collections |-> [c \in CollIds |->
                IF c \in ack.deleted.collections THEN NoColl
                ELSE IF c \in ack.synced.collections /\ collections[c].ex
                  THEN Synced(collections[c])
                ELSE collections[c]],
   tags |-> [t \in TagIds |->
                IF t \in ack.deleted.tags THEN NoTag
                ELSE IF t \in ack.synced.tags /\ tags[t].ex THEN Synced(tags[t])
                ELSE tags[t]],
   itemTags |-> [l \in Links |->
                IF l \in ack.synced.itemTags /\ itemTags[l] # "none"
                  THEN "synced" ELSE itemTags[l]]]

Failed(row) == [row EXCEPT !.st = "error", !.err = TRUE]

markAsError(chunk) ==
  [items |-> [i \in ItemIds |->
                IF i \in SeqIds(chunk.items) /\ items[i].ex
                  THEN Failed(items[i]) ELSE items[i]],
   collections |-> [c \in CollIds |->
                IF c \in {x.id : x \in chunk.collections} /\ collections[c].ex
                  THEN Failed(collections[c]) ELSE collections[c]],
   tags |-> [t \in TagIds |->
                IF t \in {x.id : x \in chunk.tags} /\ tags[t].ex
                  THEN Failed(tags[t]) ELSE tags[t]],
   itemTags |-> [l \in Links |->
                IF l \in chunk.itemTags /\ itemTags[l] # "none"
                  THEN "error" ELSE itemTags[l]]]

\* ------------------------------------------------------- pull and merge
MaxOf(S) == IF S = {} THEN 0 ELSE CHOOSE m \in S : \A x \in S : x <= m

getLastSyncTimestamp ==
  MaxOf({items[i].lsa : i \in {j \in ItemIds : items[j].ex}}
        \cup {collections[c].lsa : c \in {d \in CollIds : collections[d].ex}}
        \cup {tags[t].lsa : t \in {u \in TagIds : tags[u].ex}})

\* A merge that always writes the remote copy.
ServerAlwaysWins(local, remote) == TRUE

\* A merge that lets the remote copy win ties.
ServerWinsTies(local, remote) == ~local.ex \/ remote.upd >= local.upd

\* if (!localItem || serverItem.updatedAt > localItem.updatedAt)
ServerWins(local, remote) == ~local.ex \/ remote.upd > local.upd

\* mergeTags also asks both updatedAt to be truthy
ServerWinsTag(local, remote) ==
  ~local.ex \/ (remote.upd # 0 /\ local.upd # 0 /\ remote.upd > local.upd)

mergeItems(serverItems) ==
  [i \in ItemIds |->
     IF i \in serverItems /\ ServerWins(items[i], rItems[i])
       THEN [ex |-> TRUE, coll |-> rItems[i].coll, title |-> rItems[i].title,
             del |-> FALSE, st |-> "synced", lsa |-> now, err |-> FALSE,
             upd |-> rItems[i].upd]
       ELSE items[i]]

mergeCollections(serverCollections) ==
  [c \in CollIds |->
     IF c \in serverCollections /\ ServerWins(collections[c], rCollections[c])
       THEN [ex |-> TRUE, slug |-> rCollections[c].slug,
             isDefault |-> rCollections[c].isDefault, del |-> FALSE,
             st |-> "synced", lsa |-> now, err |-> FALSE,
             upd |-> rCollections[c].upd]
       ELSE collections[c]]

mergeTags(serverTags) ==
  [t \in TagIds |->
     IF t \in serverTags /\ ServerWinsTag(tags[t], rTags[t])
       THEN [ex |-> TRUE, slug |-> rTags[t].slug, del |-> FALSE,
             st |-> "synced", lsa |-> now, err |-> FALSE,
             upd |-> rTags[t].upd, created |-> rTags[t].created]
       ELSE tags[t]]

mergeItemTags(serverItemTags) ==
  [l \in Links |->
     IF l \in serverItemTags /\ itemTags[l] = "none" THEN "synced" ELSE itemTags[l]]

\* --------------------------------------------------------- Retry Scheduler
RECURSIVE Pow2(_)
Pow2(n) == IF n = 0 THEN 1 ELSE 2 * Pow2(n - 1)

calculateBackoff(retryCount) == RetryDelayMs * Pow2(retryCount)

RECURSIVE DrainQueue(_)
\* processRetryQueue over the rows of the queue, in order
DrainQueue(q) ==
  IF q = << >> THEN << >>
  ELSE LET r == Head(q)
           rest == DrainQueue(Tail(q))
       IN IF ~(r.nextRetryAt < now) THEN <<r>> \o rest
          ELSE IF r.retryCount >= r.maxRetries THEN rest
          ELSE <<[r EXCEPT !.retryCount = r.retryCount + 1,
                           !.lastAttemptAt = now,
                           !.nextRetryAt = now + calculateBackoff(r.retryCount)]>>
                 \o rest

processRetryQueue == DrainQueue(syncQueue)

\* lastAttemptAt = 0: the row has not been attempted.
addChunkToRetryQueue(q, chunk) ==
  Append(q, [data |-> chunk, retryCount |-> 0, maxRetries |-> MaxRetriesOpt,
             lastAttemptAt |-> 0, nextRetryAt |-> now + RetryDelayMs,
             createdAt |-> now])

\* The items of the queued chunks whose retry this pass makes eligible: the
\* row is due and is not dropped.
DueItems(q) ==
  UNION {SeqIds(q[k].data.items) :
           k \in {j \in 1..Len(q) : q[j].nextRetryAt < now
                                     /\ q[j].retryCount < q[j].maxRetries}}

\* ------------------------------------------------------- Sync Orchestrator
storeUnchanged == UNCHANGED <<items, collections, tags, itemTags>>
remoteUnchanged == UNCHANGED <<rItems, rCollections, rTags, rItemTags, otherItems, otherItemTags>>

\* A sync() whose in-flight check is missing: every call starts a cycle.
syncUnguarded(e) ==
  /\ syncInProgress' = [syncInProgress EXCEPT ![e] = TRUE]
  /\ pc' = [pc EXCEPT ![e] = "retry"]
  /\ errors' = [errors EXCEPT ![e] = << >>]
  /\ warnings' = [warnings EXCEPT ![e] = << >>]
  /\ cyc' = [cyc EXCEPT ![e] = NoCycle]
  /\ storeUnchanged
  /\ remoteUnchanged
  /\ UNCHANGED <<syncQueue, now, payload, chunks, idx, totalSynced, result,
                 fresh, minted, collVars>>

\* SyncEngine.sync(), up to its first await: the in-flight guard.
sync(e) ==
  /\ IF syncInProgress[e]
       THEN /\ result' = [result EXCEPT ![e] = RejectedResult]
            /\ UNCHANGED <<syncInProgress, pc, errors, warnings, cyc>>
       ELSE /\ syncInProgress' = [syncInProgress EXCEPT ![e] = TRUE]
            /\ pc' = [pc EXCEPT ![e] = "retry"]
            /\ errors' = [errors EXCEPT ![e] = << >>]
            /\ warnings' = [warnings EXCEPT ![e] = << >>]
            /\ cyc' = [cyc EXCEPT ![e] =
                 [NoCycle EXCEPT
                    !.pend = {i \in ItemIds : items[i].ex /\ ~items[i].del
                                               /\ items[i].st = "pending"
                                               /\ items[i].lsa = 0},
                    !.dels = {i \in ItemIds : items[i].ex /\ items[i].del
                                               /\ items[i].st = "pending"}]]
            /\ UNCHANGED result
  /\ storeUnchanged
  /\ remoteUnchanged
  /\ UNCHANGED <<syncQueue, now, payload, chunks, idx, totalSynced, fresh, minted, collVars>>

\* AutoSyncManager.syncNow, the interval callback and the online handler all
\* call sync() of the manager's engine.
SyncNow ==
  /\ sync(mgr)
  /\ UNCHANGED <<mgr, auto>>

\* A store operation outside the per-chunk try rejects (processRetryQueue,
\* gatherPendingData or the markAsSyncing transaction): the outer catch.
StoreThrows(e) ==
  /\ pc[e] \in {"retry", "gather", "mark"}
  /\ pc' = [pc EXCEPT ![e] = "done"]
  /\ errors' = [errors EXCEPT ![e] = Append(@, "store")]
  /\ UNCHANGED warnings
  /\ cyc' = [cyc EXCEPT ![e].threw = TRUE]
  /\ storeUnchanged
  /\ remoteUnchanged
  /\ UNCHANGED <<syncQueue, now, syncInProgress, payload, chunks, idx,
                 totalSynced, result, mgr, fresh, minted, collVars, auto>>

\* Step 1: processRetryQueue
ProcessRetry(e) ==
  /\ pc[e] = "retry"
  /\ syncQueue' = processRetryQueue
  /\ pc' = [pc EXCEPT ![e] = "gather"]
  /\ cyc' = [cyc EXCEPT ![e].due = DueItems(syncQueue)]
  /\ UNCHANGED <<errors, warnings>>
  /\ storeUnchanged
  /\ remoteUnchanged
  /\ UNCHANGED <<now, syncInProgress, payload, chunks, idx, totalSynced,
                 result, mgr, fresh, minted, collVars, auto>>

\* Step 2: gatherPendingData, and the empty-payload branch
Gather(e) ==
  /\ pc[e] = "gather"
  /\ payload' = [payload EXCEPT ![e] = gatherPendingData]
  /\ pc' = [pc EXCEPT ![e] =
              IF isPayloadEmpty(gatherPendingData) THEN "pull0" ELSE "mark"]
  /\ UNCHANGED <<errors, warnings, cyc>>
  /\ storeUnchanged
  /\ remoteUnchanged
  /\ UNCHANGED <<syncQueue, now, syncInProgress, chunks, idx, totalSynced,
                 result, mgr, fresh, minted, collVars, auto>>

\* Steps 4 and 5: markAsSyncing, then chunkPayload
MarkSyncing(e) ==
  /\ pc[e] = "mark"
  /\ LET m == markAsSyncing(payload[e])
     IN /\ items' = m.items
        /\ collections' = m.collections
        /\ tags' = m.tags
        /\ itemTags' = m.itemTags
  /\ chunks' = [chunks EXCEPT ![e] = chunkPayload(payload[e])]
  /\ idx' = [idx EXCEPT ![e] = 1]
  /\ pc' = [pc EXCEPT ![e] =
              IF Len(chunkPayload(payload[e])) = 0 THEN "pull" ELSE "send"]
  /\ UNCHANGED <<errors, warnings, cyc>>
  /\ remoteUnchanged
  /\ UNCHANGED <<syncQueue, now, syncInProgress, payload, totalSynced,
                 result, mgr, fresh, minted, collVars, auto>>

\* A loop that leaves for the pull after its first chunk.
AdvanceToPull(e) ==
  /\ idx' = [idx EXCEPT ![e] = @ + 1]
  /\ pc' = [pc EXCEPT ![e] = "pull"]

\* The loop of step 6 moves on to the next chunk, or to the pull.
Advance(e) ==
  /\ idx' = [idx EXCEPT ![e] = @ + 1]
  /\ pc' = [pc EXCEPT ![e] = IF idx[e] = Len(chunks[e]) THEN "pull" ELSE "send"]

\* Steps 6 and 7: the chunk is posted, acknowledged and marked synced.
ChunkResponse(e, conflicts) ==
  /\ pc[e] = "send"
  /\ \E r \in {ServerPost(chunks[e][idx[e]])} :
     \E m \in {markAsSynced(r.ack)} :
        /\ r.ok
        /\ rItems' = r.rItems
        /\ rCollections' = r.rCollections
        /\ rTags' = r.rTags
        /\ rItemTags' = r.rItemTags
        /\ otherItems' = r.otherItems
        /\ otherItemTags' = r.otherItemTags
        /\ items' = m.items
        /\ collections' = m.collections
        /\ tags' = m.tags
        /\ itemTags' = m.itemTags
        /\ totalSynced' = [totalSynced EXCEPT ![e] =
             [items |-> @.items + Cardinality(r.ack.synced.items),
              collections |-> @.collections + Cardinality(r.ack.synced.collections),
              tags |-> @.tags + Cardinality(r.ack.synced.tags),
              itemsDeleted |-> @.itemsDeleted + Cardinality(r.ack.deleted.items),
              collectionsDeleted |->
                @.collectionsDeleted + Cardinality(r.ack.deleted.collections),
              tagsDeleted |-> @.tagsDeleted + Cardinality(r.ack.deleted.tags)]]
  /\ warnings' = IF conflicts
                   THEN [warnings EXCEPT ![e] = Append(@, "conflicts detected")]
                   ELSE warnings
  /\ cyc' = [cyc EXCEPT ![e].log = Append(@, "ok")]
  /\ Advance(e)
  /\ UNCHANGED <<syncQueue, now, syncInProgress, payload, chunks, errors,
                 result, mgr, fresh, minted, collVars, auto>>

\* The response of this repository's POST handler: it has no conflicts field.
ChunkAcked(e) == ChunkResponse(e, FALSE)

\* A response that validates and carries a non-empty conflicts list.
ChunkAckedWithConflicts(e) == ChunkResponse(e, TRUE)

\* The chunk fails: the transport fails or the status is not OK (the server
\* applied nothing), or the server applied the chunk and the response is
\* lost, malformed, or markAsSynced rejects.  The catch marks the chunk's
\* entities as error and queues the chunk.
ChunkFailed(e) ==
  /\ pc[e] = "send"
  /\ \E r \in {ServerPost(chunks[e][idx[e]])} :
     \E m \in {markAsError(chunks[e][idx[e]])} :
        /\ r.ok => Len(syncQueue) < MaxQueue
        /\ \E applied \in {a \in BOOLEAN : a => r.ok} :
             /\ rItems' = IF applied THEN r.rItems ELSE rItems
             /\ rCollections' = IF applied THEN r.rCollections ELSE rCollections
             /\ rTags' = IF applied THEN r.rTags ELSE rTags
             /\ rItemTags' = IF applied THEN r.rItemTags ELSE rItemTags
             /\ otherItems' = IF applied THEN r.otherItems ELSE otherItems
             /\ otherItemTags' =
                  IF applied THEN r.otherItemTags ELSE otherItemTags
        /\ items' = m.items
        /\ collections' = m.collections
        /\ tags' = m.tags
        /\ itemTags' = m.itemTags
  /\ errors' = [errors EXCEPT ![e] = Append(@, "Chunk sync failed")]
  /\ UNCHANGED warnings
  /\ syncQueue' = addChunkToRetryQueue(syncQueue, chunks[e][idx[e]])
  /\ cyc' = [cyc EXCEPT ![e].log = Append(@, "fail")]
  /\ Advance(e)
  /\ UNCHANGED <<now, syncInProgress, payload, chunks, totalSynced,
                 result, mgr, fresh, minted, collVars, auto>>

\* A response with status OK whose body has, in the place of one of its
\* identifier arrays, nothing (the key is missing) or a value that is not an
\* array (an empty string).  The other six are the arrays the handler sends.
AckFields == {"synced.items", "synced.collections", "synced.tags",
              "synced.itemTags", "deleted.items", "deleted.collections",
              "deleted.tags"}
BadShapes == {"missing", "string"}
Response(f, s) == [g \in AckFields |-> IF g = f THEN s ELSE "array"]

\* validateServerResponse: Array.isArray on four of the seven fields.
validateServerResponse(resp) ==
  \A g \in {"synced.items", "synced.collections", "synced.tags", "deleted.items"} :
    resp[g] = "array"

\* markAsSynced reads `.length` of each field: of a missing one that is a
\* TypeError, which aborts the transaction; the length of "" is 0.
markAsSyncedThrows(resp) == \E g \in AckFields : resp[g] = "missing"

\* What markAsSynced and the counters see of the handler's acknowledgement
\* when field f is an empty string.
AckWithout(ack, f) ==
  [synced |->
     [items |-> IF f = "synced.items" THEN {} ELSE ack.synced.items,
      collections |-> IF f = "synced.collections" THEN {} ELSE ack.synced.collections,
      tags |-> IF f = "synced.tags" THEN {} ELSE ack.synced.tags,
      itemTags |-> IF f = "synced.itemTags" THEN {} ELSE ack.synced.itemTags],
   deleted |->
     [items |-> IF f = "deleted.items" THEN {} ELSE ack.deleted.items,
      collections |-> IF f = "deleted.collections" THEN {} ELSE ack.deleted.collections,
      tags |-> IF f = "deleted.tags" THEN {} ELSE ack.deleted.tags]]

\* Steps 6 and 7 for such a response: the server has applied the chunk; the
\* response is rejected by validateServerResponse or by markAsSynced and the
\* catch runs, or it passes both and is applied.
ChunkMalformed(e, f, s) ==
  /\ pc[e] = "send"
  /\ \E r \in {ServerPost(chunks[e][idx[e]])} :
     \E caught \in {~validateServerResponse(Response(f, s))
                      \/ markAsSyncedThrows(Response(f, s))} :
     \E ack \in {AckWithout(r.ack, f)} :
     \E m \in {IF caught THEN markAsError(chunks[e][idx[e]])
               ELSE markAsSynced(ack)} :
        /\ r.ok
        /\ caught => Len(syncQueue) < MaxQueue
        /\ rItems' = r.rItems
        /\ rCollections' = r.rCollections
        /\ rTags' = r.rTags
        /\ rItemTags' = r.rItemTags
        /\ otherItems' = r.otherItems
        /\ otherItemTags' = r.otherItemTags
        /\ items' = m.items
        /\ collections' = m.collections
        /\ tags' = m.tags
        /\ itemTags' = m.itemTags
        /\ totalSynced' =
             IF caught THEN totalSynced
             ELSE [totalSynced EXCEPT ![e] =
               [items |-> @.items + Cardinality(ack.synced.items),
                collections |-> @.collections + Cardinality(ack.synced.collections),
                tags |-> @.tags + Cardinality(ack.synced.tags),
                itemsDeleted |-> @.itemsDeleted + Cardinality(ack.deleted.items),
                collectionsDeleted |->
                  @.collectionsDeleted + Cardinality(ack.deleted.collections),
                tagsDeleted |-> @.tagsDeleted + Cardinality(ack.deleted.tags)]]
        /\ errors' = IF caught
                       THEN [errors EXCEPT ![e] = Append(@, "Chunk sync failed")]
                       ELSE errors
        /\ syncQueue' = IF caught
                          THEN addChunkToRetryQueue(syncQueue, chunks[e][idx[e]])
                          ELSE syncQueue
        /\ cyc' = [cyc EXCEPT ![e].log = Append(@, IF caught THEN "fail" ELSE "ok")]
  /\ Advance(e)
  /\ UNCHANGED <<now, syncInProgress, payload, chunks, warnings,
                 result, mgr, fresh, minted, collVars, auto>>

\* The chunk fails and the catch's own store operation rejects: markAsError
\* (nothing is written) or addChunkToRetryQueue (after markAsError).  The
\* rejection leaves the loop for the outer catch.
ChunkHandlerThrows(e) ==
  /\ pc[e] = "send"
  /\ LET c == chunks[e][idx[e]]
         m == markAsError(c)
     IN \E marked \in BOOLEAN :
          /\ items' = IF marked THEN m.items ELSE items
          /\ collections' = IF marked THEN m.collections ELSE collections
          /\ tags' = IF marked THEN m.tags ELSE tags
          /\ itemTags' = IF marked THEN m.itemTags ELSE itemTags
  /\ errors' = [errors EXCEPT ![e] = @ \o <<"Chunk sync failed", "store">>]
  /\ UNCHANGED warnings
  /\ cyc' = [cyc EXCEPT ![e].log = Append(@, "fail"), ![e].threw = TRUE]
  /\ pc' = [pc EXCEPT ![e] = "done"]
  /\ remoteUnchanged
  /\ UNCHANGED <<syncQueue, now, syncInProgress, payload, chunks, idx,
                 totalSynced, result, mgr, fresh, minted, collVars, auto>>

\* Steps 3 and 8: pullServerChanges, GET and merge transaction.
PullMerged(e) ==
  /\ pc[e] \in {"pull", "pull0"}
  /\ LET g == ServerGet(getLastSyncTimestamp)
     IN /\ items' = mergeItems(g.items)
        /\ collections' = mergeCollections(g.collections)
        /\ tags' = mergeTags(g.tags)
        /\ itemTags' = mergeItemTags(g.itemTags)
  /\ cyc' = [cyc EXCEPT ![e].pulled = TRUE, ![e].pullOk = TRUE]
  /\ pc' = [pc EXCEPT ![e] = "done"]
  /\ remoteUnchanged
  /\ UNCHANGED <<syncQueue, now, syncInProgress, payload, chunks, idx, errors, warnings,
                 totalSynced, result, mgr, fresh, minted, collVars, auto>>

\* The GET fails or the merge rejects: caught and logged inside the pull.
PullFailed(e) ==
  /\ pc[e] \in {"pull", "pull0"}
  /\ cyc' = [cyc EXCEPT ![e].pulled = TRUE]
  /\ pc' = [pc EXCEPT ![e] = "done"]
  /\ storeUnchanged
  /\ remoteUnchanged
  /\ UNCHANGED <<syncQueue, now, syncInProgress, payload, chunks, idx, errors, warnings,
                 totalSynced, result, mgr, fresh, minted, collVars, auto>>

\* A return value whose success flag ignores the collected chunk errors.
ReturnValueIgnoringErrors(e) ==
  IF cyc[e].threw
    THEN [kind |-> "done", success |-> FALSE, counts |-> ZeroTotals,
          errors |-> errors[e], warnings |-> warnings[e]]
    ELSE [kind |-> "done", success |-> TRUE,
          counts |-> totalSynced[e], errors |-> errors[e],
          warnings |-> warnings[e]]

\* What sync() returns: the catch's result, or the aggregate of the chunks.
ReturnValue(e) ==
  IF cyc[e].threw
    THEN [kind |-> "done", success |-> FALSE, counts |-> ZeroTotals,
          errors |-> errors[e], warnings |-> warnings[e]]
    ELSE [kind |-> "done", success |-> (Len(errors[e]) = 0),
          counts |-> totalSynced[e], errors |-> errors[e],
          warnings |-> warnings[e]]

NoChunkFailed(e) == \A k \in 1..Len(cyc[e].log) : cyc[e].log[k] = "ok"
Quiet(e) == cyc[e].races = 0
Clean(e) == Quiet(e) /\ ~cyc[e].threw /\ cyc[e].pullOk /\ NoChunkFailed(e)

\* A sync() that resets syncInProgress at the end of the try block, not in a
\* finally block: the outer catch returns with the guard still held.
FinishWithoutFinally(e) ==
  /\ pc[e] = "done"
  /\ result' = [result EXCEPT ![e] = ReturnValue(e)]
  /\ syncInProgress' = [syncInProgress EXCEPT ![e] = cyc[e].threw]
  /\ pc' = [pc EXCEPT ![e] = "idle"]
  /\ payload' = [payload EXCEPT ![e] = EmptyPayload]
  /\ chunks' = [chunks EXCEPT ![e] = << >>]
  /\ idx' = [idx EXCEPT ![e] = 1]
  /\ errors' = [errors EXCEPT ![e] = << >>]
  /\ warnings' = [warnings EXCEPT ![e] = << >>]
  /\ totalSynced' = [totalSynced EXCEPT ![e] = ZeroTotals]
  /\ fresh' = Clean(e)
  /\ cyc' = [cyc EXCEPT ![e] = NoCycle]
  /\ storeUnchanged
  /\ remoteUnchanged
  /\ UNCHANGED <<syncQueue, now, mgr, minted, collVars, auto>>

\* return, and the finally block
Finish(e) ==
  /\ pc[e] = "done"
  /\ result' = [result EXCEPT ![e] = ReturnValue(e)]
  /\ syncInProgress' = [syncInProgress EXCEPT ![e] = FALSE]
  /\ pc' = [pc EXCEPT ![e] = "idle"]
  /\ payload' = [payload EXCEPT ![e] = EmptyPayload]
  /\ chunks' = [chunks EXCEPT ![e] = << >>]
  /\ idx' = [idx EXCEPT ![e] = 1]
  /\ errors' = [errors EXCEPT ![e] = << >>]
  /\ warnings' = [warnings EXCEPT ![e] = << >>]
  /\ totalSynced' = [totalSynced EXCEPT ![e] = ZeroTotals]
  /\ fresh' = Clean(e)
  /\ cyc' = [cyc EXCEPT ![e] = NoCycle]
  /\ storeUnchanged
  /\ remoteUnchanged
  /\ UNCHANGED <<syncQueue, now, mgr, minted, collVars, auto>>

\* useSync's effect runs again for the same owner (intervalMs or autoStart
\* changed, or the component remounted): destroy() leaves the old engine's
\* cycle running, a new AutoSyncManager with a new SyncEngine is created and
\* start() calls its sync() at once.
Remount ==
  /\ \E o \in Engines \ {mgr} :
       /\ ~syncInProgress[o]
       /\ mgr' = o
       /\ sync(o)
  /\ UNCHANGED auto

\* ----------------------------------------------------------- other device
\* The tag the other device puts on its own items.
OtherTagId == "t1"
OtherTag(u) ==
  [id |-> OtherTagId, slug |-> TagSlug[OtherTagId], upd |-> u,
   created |-> IF rTags[OtherTagId].ex THEN rTags[OtherTagId].created ELSE u]

\* Another device of the owner POSTs a chunk holding one item: one it
\* created (tagged), or its version of an item it pulled.
OtherDevicePush(i, u) ==
  /\ i \in OtherItemIds \/ rItems[i].ex
  /\ u \in 1..MaxTime
  /\ u <= now + 1
  /\ now' = IF u > now THEN u ELSE now
  /\ LET c == IF rItems[i].ex THEN rItems[i].coll ELSE ServerCollId
         own == i \in OtherItemIds
     IN \E r \in {ServerPost([EmptyPayload EXCEPT
                !.items = <<[id |-> i, coll |-> c, title |-> "o", upd |-> u]>>,
                !.tags = IF own THEN {OtherTag(u)} ELSE {},
                !.itemTags = IF own THEN {<<i, OtherTagId>>} ELSE {}])} :
        /\ r.ok
        /\ rItems' = r.rItems
        /\ rCollections' = r.rCollections
        /\ rTags' = r.rTags
        /\ rItemTags' = r.rItemTags
        /\ otherItems' = r.otherItems
        /\ otherItemTags' = r.otherItemTags
  /\ Disturb
  /\ storeUnchanged
  /\ UNCHANGED <<syncQueue, syncInProgress, pc, payload, chunks, idx,
                 errors, warnings, totalSynced, result, mgr, minted, collVars, auto>>

\* Another user's client POSTs an item of its own, linked to one of its
\* tags: the item is created under that user.  The id is free on the server.
OtherUserCollId == "cO"
OtherUserTagId == "tO"
OtherUserPush(i) ==
  /\ ~rItems[i].ex
  /\ ~otherItems[i].ex
  /\ otherItems' = [otherItems EXCEPT ![i] =
       [ex |-> TRUE, coll |-> OtherUserCollId, title |-> "o", upd |-> now]]
  /\ otherItemTags' = otherItemTags \cup {<<i, OtherUserTagId>>}
  /\ storeUnchanged
  /\ UNCHANGED <<rItems, rCollections, rTags, rItemTags, syncQueue, now,
                 syncInProgress, pc, payload, chunks, idx, errors, warnings,
                 totalSynced, result, mgr, cyc, fresh, minted, collVars, auto>>

\* A device of the owner POSTs a chunk of new items and no collections (a
\* second or later chunk of its payload), the items filed in a collection
\* the remote does not have.  The transaction commits, or throws and is
\* rolled back (status 500).
OrphanCollId == "c2"
OrphanPush(S) ==
  /\ S # {}
  /\ S \cap minted = {}
  /\ \A i \in S : ~rItems[i].ex /\ ~otherItems[i].ex
  /\ ~rCollections[OrphanCollId].ex
  /\ minted' = minted \cup S
  /\ \E ids \in {SortIds(S)} :
     \E r \in {ServerPost([EmptyPayload EXCEPT
                !.items = [k \in 1..Len(ids) |->
                             [id |-> ids[k], coll |-> OrphanCollId,
                              title |-> "o", upd |-> now]]])} :
        /\ rItems' = r.rItems
        /\ rCollections' = r.rCollections
        /\ rTags' = r.rTags
        /\ rItemTags' = r.rItemTags
        /\ otherItems' = r.otherItems
        /\ otherItemTags' = r.otherItemTags
  /\ storeUnchanged
  /\ UNCHANGED <<syncQueue, now, syncInProgress, pc, payload, chunks, idx,
                 errors, warnings, totalSynced, result, mgr, cyc, fresh, collVars, auto>>

\* ---------------------------------------------------------- AutoSyncManager
TimerIds == 1..MaxTimers

\* stop(): clearInterval(intervalId), intervalId = null
stop(a) ==
  IF a.intervalId # 0
    THEN [a EXCEPT !.timers = @ \ {a.intervalId}, !.intervalId = 0,
                   !.stopped = TRUE]
    ELSE [a EXCEPT !.stopped = TRUE]

\* A start() that sets the new interval without clearing the old one.
startWithoutStop(a, id) ==
  [a EXCEPT !.intervalId = id, !.timers = @ \cup {id}, !.stopped = FALSE]

\* start(): stop(), then intervalId = setInterval(...)
start(a, id) ==
  [stop(a) EXCEPT !.intervalId = id, !.timers = @ \cup {id}, !.stopped = FALSE]

\* destroy(): stop(), then both listeners are removed
destroy(a) == [stop(a) EXCEPT !.listening = FALSE, !.destroyed = TRUE]

\* What a handler does to the engine: sync() when the manager believes it is
\* online, nothing otherwise.
SyncIfOnline(m) ==
  IF auto[m].isOnline THEN sync(m)
  ELSE /\ storeUnchanged
       /\ remoteUnchanged
       /\ UNCHANGED <<syncQueue, now, syncInProgress, pc, payload, chunks, idx,
                      errors, warnings, totalSynced, result, cyc, fresh, minted,
                      delOp, opResult, tagOp, ensure>>

\* start(intervalMs) on a manager in use; setInterval returns a handle the
\* browser is not using.
Start(m) ==
  /\ ~auto[m].destroyed
  /\ \E id \in TimerIds :
       /\ id \notin auto[m].timers
       /\ \A j \in TimerIds : j < id => j \in auto[m].timers
       /\ auto' = [auto EXCEPT ![m] = start(@, id)]
  /\ SyncIfOnline(m)
  /\ UNCHANGED mgr

Stop(m) ==
  /\ auto' = [auto EXCEPT ![m] = stop(@)]
  /\ storeUnchanged
  /\ remoteUnchanged
  /\ UNCHANGED <<syncQueue, now, syncInProgress, pc, payload, chunks, idx,
                 errors, warnings, totalSynced, result, mgr, cyc, fresh, minted,
                 delOp, opResult, tagOp, ensure>>

Destroy(m) ==
  /\ auto' = [auto EXCEPT ![m] = destroy(@)]
  /\ storeUnchanged
  /\ remoteUnchanged
  /\ UNCHANGED <<syncQueue, now, syncInProgress, pc, payload, chunks, idx,
                 errors, warnings, totalSynced, result, mgr, cyc, fresh, minted,
                 delOp, opResult, tagOp, ensure>>

\* The browser runs the callback of an interval timer it holds.
TimerTick(m, id) ==
  /\ id \in auto[m].timers
  /\ SyncIfOnline(m)
  /\ UNCHANGED <<mgr, auto>>

\* The window's online and offline events reach the registered handlers.
OnlineEvent(m) ==
  /\ auto[m].listening
  /\ auto' = [auto EXCEPT ![m].isOnline = TRUE]
  /\ sync(m)
  /\ UNCHANGED mgr

OfflineEvent(m) ==
  /\ auto[m].listening
  /\ auto' = [auto EXCEPT ![m].isOnline = FALSE]
  /\ storeUnchanged
  /\ remoteUnchanged
  /\ UNCHANGED <<syncQueue, now, syncInProgress, pc, payload, chunks, idx,
                 errors, warnings, totalSynced, result, mgr, cyc, fresh, minted,
                 delOp, opResult, tagOp, ensure>>

\* ---------------------------------------------------------- specifications
\* A cycle's steps when nothing fails, and the ways a step can fail.
EngineOk(e) ==
  \/ ProcessRetry(e)
  \/ Gather(e)
  \/ MarkSyncing(e)
  \/ ChunkAcked(e)
  \/ PullMerged(e)
  \/ Finish(e)

EngineFault(e) ==
  \/ StoreThrows(e)
  \/ ChunkFailed(e)
  \/ ChunkHandlerThrows(e)
  \/ PullFailed(e)

\* One device, one engine, every failure: items are added and pushed, and
\* time passes between the steps.
Next ==
  \/ Tick
  \/ \E i \in LocalItemIds : AddItem(i)
  \/ SyncNow
  \/ EngineOk("e1")
  \/ EngineFault("e1")

Spec == Init /\ [][Next]_vars

\* Tags and deletions, nothing fails.
NextTags ==
  \/ AddItem("i1")
  \/ TagItem("i1", "t1")
  \/ DeleteItem("i1")
  \/ SyncNow
  \/ EngineOk("e1")

SpecTags == Init /\ [][NextTags]_vars

\* Two devices write the same items and both push, nothing fails.
NextDevices ==
  \/ AddItem("i1")
  \/ MarkReady("i1")
  \/ \E i \in {"i1", "o1"}, u \in {now, now + 1} : OtherDevicePush(i, u)
  \/ SyncNow
  \/ EngineOk("e1")

SpecDevices == Init /\ [][NextDevices]_vars

\* The other device pushes, this device edits display fields and pulls.
NextMerge ==
  \/ AddItem("i1")
  \/ EnrichItem("i1")
  \/ \E i \in {"i1", "o1"}, u \in {now, now + 1} : OtherDevicePush(i, u)
  \/ SyncNow
  \/ EngineOk("e1")

SpecMerge == Init /\ [][NextMerge]_vars

\* The collection operations of one device, with items added to the
\* collection on screen, and the sync cycle.
NextCollections ==
  \/ AddItem("i1")
  \/ AddCollection("c2", "Work")
  \/ \E c \in {DefaultCollId, "c2"} : updateCollection(c, "Play")
  \/ \E c \in {DefaultCollId, "c2"} : DeleteCollectionRead(c)
  \/ DeleteCollectionWrite
  \/ SyncNow
  \/ EngineOk("e1")

SpecCollections == Init /\ [][NextCollections]_vars

\* bulkTag and the background tagging of addItem: addTagsToItem calls that
\* overlap, and the sync cycle.
NextBulkTag ==
  \/ \E i \in LocalItemIds : AddItem(i)
  \/ \E k \in Calls, i \in LocalItemIds : TagLookup(k, i)
  \/ \E k \in Calls, t \in TagIds : TagApply(k, t)
  \/ SyncNow
  \/ EngineOk("e1")

SpecBulkTag == Init /\ [][NextBulkTag]_vars

\* A collection deleted while items are added, and the sync cycle.
NextDeletion ==
  \/ \E i \in LocalItemIds : AddItem(i)
  \/ AddCollection("c2", "Work")
  \/ DeleteCollectionRead("c2")
  \/ DeleteCollectionWrite
  \/ SyncNow
  \/ EngineOk("e1")

SpecDeletion == Init /\ [][NextDeletion]_vars

\* An item deleted here and edited on another device, with the hook
\* remounting while a cycle is in flight.
NextPurge ==
  \/ AddItem("i1")
  \/ DeleteItem("i1")
  \/ OtherDevicePush("i1", now + 1)
  \/ SyncNow
  \/ Remount
  \/ \E e \in Engines : EngineOk(e)

SpecPurge == Init /\ [][NextPurge]_vars

\* Two users of one server: the other user's items take ids this device
\* also draws.
NextOwners ==
  \/ \E i \in LocalItemIds : OtherUserPush(i)
  \/ \E i \in LocalItemIds : AddItem(i)
  \/ TagItem("i1", "t1")
  \/ SyncNow
  \/ EngineOk("e1")

SpecOwners == Init /\ [][NextOwners]_vars

\* Items that are tagged, deleted, pushed and rejected: rows in every sync
\* state, deleted or not, when a cycle collects its batch.
NextCollector ==
  \/ \E i \in LocalItemIds : AddItem(i)
  \/ TagItem("i1", "t1")
  \/ DeleteItem("i1")
  \/ SyncNow
  \/ EngineOk("e1")
  \/ ChunkFailed("e1")

SpecCollector == Init /\ [][NextCollector]_vars

\* Chunks that fail and are collected again, and responses with and without
\* a conflicts list.
NextAck ==
  \/ \E i \in LocalItemIds : AddItem(i)
  \/ TagItem("i1", "t1")
  \/ SyncNow
  \/ EngineOk("e1")
  \/ ChunkFailed("e1")
  \/ ChunkAckedWithConflicts("e1")

SpecAck == Init /\ [][NextAck]_vars

\* Tagged and deleted items pushed to a server whose responses lack one of
\* the identifier arrays.
NextMalformed ==
  \/ AddItem("i1")
  \/ TagItem("i1", "t1")
  \/ DeleteItem("i1")
  \/ SyncNow
  \/ EngineOk("e1")
  \/ \E f \in AckFields : \E s \in BadShapes : ChunkMalformed("e1", f, s)

SpecMalformed == Init /\ [][NextMalformed]_vars

\* One device's item edited while it syncs, chunks that fail, and another
\* device that writes after every local write.
NextStamps ==
  \/ AddItem("i1")
  \/ EnrichItem("i1")
  \/ \E i \in {"i1", "o1"} : OtherDevicePush(i, now + 1)
  \/ SyncNow
  \/ EngineOk("e1")
  \/ ChunkFailed("e1")

SpecStamps == Init /\ [][NextStamps]_vars

\* The other device pushes its item while this device writes and syncs.  No
\* request fails, so every cycle is a successful one; the interval timer
\* keeps calling sync() and a started cycle runs to its end.
NextWatermark ==
  \/ AddItem("i1")
  \/ \E u \in {now, now + 1} : OtherDevicePush("o1", u)
  \/ SyncNow
  \/ EngineOk("e1")

SpecWatermark ==
  Init /\ [][NextWatermark]_vars /\ WF_vars(SyncNow) /\ WF_vars(EngineOk("e1"))

\* Chunks of items without their collection reach the remote, from this
\* device and from another one.
NextOrphans ==
  \/ \E S \in SUBSET ItemIds : OrphanPush(S)
  \/ \E i \in LocalItemIds : AddItem(i)
  \/ SyncNow
  \/ EngineOk("e1")

SpecOrphans == Init /\ [][NextOrphans]_vars

\* Hooks ask for the default collection while bookmarks are added and
\* synced.  addItem awaits the same promise, so its write comes after a
\* transaction in flight has settled.
NextEnsure ==
  \/ \E k \in Calls : EnsureCall(k)
  \/ EnsureCommits
  \/ EnsureRejects
  \/ ~ensure.running /\ AddItem("i1")
  \/ SyncNow
  \/ EngineOk("e1")

SpecEnsure == Init /\ [][NextEnsure]_vars

\* One manager is started, stopped and destroyed while the browser goes
\* offline and online, its timers fire, and bookmarks are added and synced.
NextAuto ==
  \/ Start("e1")
  \/ Stop("e1")
  \/ Destroy("e1")
  \/ \E id \in TimerIds : TimerTick("e1", id)
  \/ OnlineEvent("e1")
  \/ OfflineEvent("e1")
  \/ AddItem("i1")
  \/ EngineOk("e1")

SpecAuto == Init /\ [][NextAuto]_vars

\* The sync hook's effect runs again while a cycle is in flight.
NextRemount ==
  \/ AddItem("i1")
  \/ SyncNow
  \/ Remount
  \/ \E e \in Engines : EngineOk(e)

SpecRemount == Init /\ [][NextRemount]_vars

\* An async function that has started runs on: each await settles (the
\* transport resolves or rejects, a store request succeeds or fails) and the
\* event loop resumes the cycle.  The clock moves with the writes only.
NextLive ==
  \/ \E i \in LocalItemIds : AddItem(i)
  \/ SyncNow
  \/ EngineOk("e1")
  \/ EngineFault("e1")

SpecLive ==
  Init /\ [][NextLive]_vars /\ WF_vars(EngineOk("e1") \/ EngineFault("e1"))

\* ------------------------------------------------------------------ claims
\* C1: a sync() invoked on an engine whose earlier sync() has not returned
\* starts no cycle: it returns success=false, six zero counts and the one
\* error "Sync already in progress", and the entity tables, the retry queue,
\* the remote store and the cycle in flight are as before the call.
C1_GuardRejects ==
  [][\A e \in Engines :
       syncInProgress[e] =>
         /\ pc[e] # "retry" => pc'[e] # "retry"
         /\ (syncInProgress'[e] /\ result'[e] # result[e]) =>
              /\ result'[e] = RejectedResult
              /\ result'[e].success = FALSE
              /\ result'[e].counts = ZeroTotals
              /\ Len(result'[e].errors) = 1
              /\ UNCHANGED <<items, collections, tags, itemTags, syncQueue,
                             rItems, rCollections, rTags, rItemTags, otherItems, otherItemTags, pc,
                             payload, chunks, idx, errors, warnings, totalSynced>>]_vars

\* A call was rejected while a chunk of the cycle in flight was being sent.
C1_Witness ==
  /\ syncInProgress["e1"]
  /\ pc["e1"] = "send"
  /\ result["e1"] = RejectedResult

\* C3: a cycle that took the guard releases it, whether its chunks were
\* acknowledged, a chunk failed, the pull failed or a store operation threw;
\* the guard is released only by the return that follows the cycle's last
\* step; and a call made while the guard is free starts a cycle instead of
\* being rejected.
C3_GuardReleased ==
  /\ syncInProgress["e1"] ~> ~syncInProgress["e1"]
  /\ [][(syncInProgress["e1"] /\ ~syncInProgress'["e1"]) => pc["e1"] = "done"]_vars
  /\ [][(~syncInProgress["e1"] /\ pc'["e1"] # pc["e1"]) =>
          /\ syncInProgress'["e1"]
          /\ pc'["e1"] = "retry"
          /\ result'["e1"] = result["e1"]]_vars

\* A cycle whose store operation threw has returned, the guard is free, and
\* the next call has started a new cycle.
C3_Witness ==
  /\ result["e1"].kind = "done"
  /\ result["e1"].errors = <<"store">>
  /\ syncInProgress["e1"]
  /\ pc["e1"] = "retry"

\* C4 as stated: the returned success flag is true exactly when no chunk
\* failed during the push.
C4_SuccessIffNoChunkFailed ==
  [][\A e \in Engines :
       (pc[e] = "done" /\ pc'[e] = "idle") =>
          (result'[e].success <=> NoChunkFailed(e))]_vars

\* C4, amended: the returned success flag is true exactly when no chunk
\* failed and no store operation outside the per-chunk handling threw; a
\* failed pull does not enter into it.
C4_SuccessIffNoChunkFailedNorThrow ==
  [][\A e \in Engines :
       (pc[e] = "done" /\ pc'[e] = "idle") =>
          (result'[e].success <=> (NoChunkFailed(e) /\ ~cyc[e].threw))]_vars

\* A cycle whose chunks were all acknowledged and whose pull failed is about
\* to return success.
C4_Witness ==
  /\ pc["e1"] = "done"
  /\ Len(cyc["e1"].log) > 0
  /\ NoChunkFailed("e1")
  /\ cyc["e1"].pulled /\ ~cyc["e1"].pullOk
  /\ ReturnValue("e1").success

\* C2: between the first and the last store transaction of one cycle no
\* other cycle on the same local store performs a store transaction.
MidCycle(e) == pc[e] \in {"gather", "mark", "send", "pull", "pull0"}
StoreStep(e) ==
  /\ pc[e] \notin {"idle", "done"}
  /\ pc'[e] # pc[e] \/ idx'[e] # idx[e]
C2_CyclesNeverInterleave ==
  [][\A e \in Engines : \A o \in Engines \ {e} :
       MidCycle(o) => ~StoreStep(e)]_vars

\* C5: when a chunk of a cycle fails, every chunk of the cycle has been
\* transmitted and the pull has run by the time the cycle returns; with no
\* other writer, the items of acknowledged chunks are synced and the items
\* of failed chunks are in error.
C5_ChunkFailureIsolated ==
  \A e \in Engines :
    (pc[e] = "done" /\ ~NoChunkFailed(e)) =>
       /\ Len(cyc[e].log) = Len(chunks[e])
       /\ cyc[e].pulled
       /\ Quiet(e) =>
            \A k \in 1..Len(cyc[e].log) :
              \A i \in SeqIds(chunks[e][k].items) :
                items[i].st = IF cyc[e].log[k] = "ok" THEN "synced" ELSE "error"

\* C6: when a sync() that no other writer disturbed returns success, each
\* item that was pending and never synced at the call is synced with
\* lastSyncedAt set, and the remote store holds an item of the same id with
\* the same fields.
C6_PushRoundTrip ==
  \A e \in Engines :
    (pc[e] = "done" /\ ReturnValue(e).success /\ Quiet(e)) =>
       \A i \in cyc[e].pend :
         /\ items[i].ex
         /\ items[i].st = "synced"
         /\ items[i].lsa > 0
         /\ rItems[i].ex
         /\ rItems[i].coll = items[i].coll
         /\ rItems[i].title = items[i].title
         /\ rItems[i].upd = items[i].upd

\* C7: when a sync() against a reachable remote returns (no chunk failed,
\* the pull succeeded, nothing threw, no other writer), each item that was
\* soft-deleted and pending at the call is gone from the local store and
\* from the remote store.
C7_DeletionPropagates ==
  \A e \in Engines :
    (pc[e] = "done" /\ Clean(e)) =>
       \A i \in cyc[e].dels : ~items[i].ex /\ ~rItems[i].ex

\* C8: a sync() that follows a clean sync() with no write in between changes
\* neither the local tables nor the remote store, and returns six zero
\* counts and no error.
C8_SecondSyncIsNoOp ==
  [][\A e \in Engines :
       (fresh /\ fresh' /\ syncInProgress[e]) =>
          /\ UNCHANGED <<items, collections, tags, itemTags>>
          /\ UNCHANGED <<rItems, rCollections, rTags, rItemTags, otherItems, otherItemTags>>
          /\ pc'[e] = "idle" =>
               /\ result'[e].counts = ZeroTotals
               /\ result'[e].errors = << >>]_vars

\* C9: a pull merges last-write-wins and the local copy wins ties: each
\* returned item, collection and tag with no local copy, or with a remote
\* updatedAt strictly greater than the local one, becomes the remote copy in
\* state synced with lastSyncedAt = now; every other returned entity keeps
\* its local copy, sync state included.
Adopted(local, remote) ==
  /\ local.ex
  /\ local.st = "synced"
  /\ local.lsa = now
  /\ local.upd = remote.upd
  /\ ~local.del
  /\ ~local.err
C9_MergeLastWriteWins ==
  [][\A e \in Engines :
       (pc[e] \in {"pull", "pull0"} /\ cyc'[e].pullOk) =>
          LET g == ServerGet(getLastSyncTimestamp)
          IN /\ \A i \in g.items :
                  IF ~items[i].ex \/ rItems[i].upd > items[i].upd
                    THEN /\ Adopted(items'[i], rItems[i])
                         /\ items'[i].title = rItems[i].title
                         /\ items'[i].coll = rItems[i].coll
                    ELSE items'[i] = items[i]
             /\ \A c \in g.collections :
                  IF ~collections[c].ex \/ rCollections[c].upd > collections[c].upd
                    THEN /\ Adopted(collections'[c], rCollections[c])
                         /\ collections'[c].slug = rCollections[c].slug
                         /\ collections'[c].isDefault = rCollections[c].isDefault
                    ELSE collections'[c] = collections[c]
             /\ \A t \in g.tags :
                  IF ~tags[t].ex \/ rTags[t].upd > tags[t].upd
                    THEN /\ Adopted(tags'[t], rTags[t])
                         /\ tags'[t].slug = rTags[t].slug
                    ELSE tags'[t] = tags[t]]_vars

\* A pull has run with the remote copy of i1 as new as the local edit (kept)
\* and with the other device's item and tag not yet known locally (adopted).
C9_Witness ==
  /\ pc["e1"] = "done" /\ cyc["e1"].pullOk
  /\ items["i1"].title = "b" /\ rItems["i1"].title = "o"
  /\ items["i1"].upd = rItems["i1"].upd
  /\ items["i1"].lsa < rItems["i1"].upd
  /\ items["o1"].ex /\ items["o1"].lsa = now
  /\ tags["t1"].ex /\ tags["t1"].lsa = now

\* C10: a push never replaces a remote copy by one with a smaller updatedAt.
C10_RemoteNeverGoesBack ==
  [][\A i \in ItemIds :
       (rItems[i].ex /\ rItems'[i].ex) => rItems'[i].upd >= rItems[i].upd]_vars

\* The time a retry entry's current nextRetryAt was computed at: its creation,
\* or its latest pass through the scheduler.
Scheduled(r) == IF r.retryCount = 0 THEN r.createdAt ELSE r.lastAttemptAt

\* C11: the delay of every retry entry, nextRetryAt minus the time it was
\* scheduled, is baseDelay * 2^retryCount with the retryCount the entry now
\* carries: baseDelay when queued, baseDelay*2 after the first retry pass,
\* baseDelay*4 after the second.
C11_BackoffSchedule ==
  \A k \in 1..Len(syncQueue) :
     syncQueue[k].nextRetryAt - Scheduled(syncQueue[k])
       = RetryDelayMs * Pow2(syncQueue[k].retryCount)

\* C12: a cycle transmits an entity that is in state error (a failed chunk's
\* entity that no local mutation has queued again) only if its retry entry
\* was due, and not exhausted, at the cycle's retry pass.
C12_RetransmittedOnlyWhenDue ==
  \A e \in Engines :
     pc[e] = "mark" =>
       \A i \in SeqIds(payload[e].items) :
          items[i].st = "error" => i \in cyc[e].due

\* A step of a sync cycle: an engine in a cycle moves on.
CycleStep == \E e \in Engines : StoreStep(e)

\* C13: no step of a sync cycle (mark-syncing, apply-acknowledgement,
\* mark-error, pull merge) gives a local item, collection or tag that it
\* keeps a smaller updatedAt.
C13_UpdatedAtNeverDecreases ==
  [][CycleStep =>
       /\ \A i \in ItemIds :
            (items[i].ex /\ items'[i].ex) => items'[i].upd >= items[i].upd
       /\ \A c \in CollIds :
            (collections[c].ex /\ collections'[c].ex)
               => collections'[c].upd >= collections[c].upd
       /\ \A t \in TagIds :
            (tags[t].ex /\ tags'[t].ex) => tags'[t].upd >= tags[t].upd]_vars

\* A cycle whose chunk failed (the item was marked error) and whose pull then
\* replaced the local item by the other device's newer copy.
C13_Witness ==
  /\ pc["e1"] = "done" /\ cyc["e1"].pullOk /\ cyc["e1"].log = <<"fail">>
  /\ "i1" \in minted
  /\ items["i1"].ex /\ items["i1"].title = "o" /\ items["i1"].st = "synced"
  /\ items["i1"].upd > 2

\* The collections of the local store that are flagged default and are not
\* deleted.
LocalDefaults ==
  {c \in CollIds : collections[c].ex /\ collections[c].isDefault
                                      /\ ~collections[c].del}

\* C14: once addItem has ensured the default collection, the local store
\* holds exactly one collection that is flagged default and is not deleted.
C14_ExactlyOneDefault ==
  minted \cap LocalItemIds # {} => Cardinality(LocalDefaults) = 1

IsDefault(c) ==
  collections[c].ex /\ collections[c].isDefault /\ ~collections[c].del

\* C15: updateCollection and deleteCollection called on the default
\* collection return a failure with the domain error and leave every
\* collection and item unchanged; no call of a collection operation changes
\* the default collection.
C15_DefaultProtected ==
  [][\A c \in CollIds :
       IsDefault(c) =>
         /\ \A n \in Names :
              updateCollection(c, n) =>
                /\ opResult' = Failure("updateCollection",
                                       "Cannot rename default collection")
                /\ UNCHANGED <<items, collections>>
         /\ DeleteCollectionRead(c) =>
              /\ opResult' = Failure("deleteCollection",
                                     "Cannot delete default collection")
              /\ UNCHANGED <<items, collections, delOp>>
         /\ (opResult' # opResult \/ delOp' # delOp) =>
              collections'[c] = collections[c]]_vars

\* The rename of the default collection was rejected after the collection
\* had been pushed: it is still the default, under its slug, and synced.
C15_Witness ==
  /\ opResult = Failure("updateCollection", "Cannot rename default collection")
  /\ IsDefault(DefaultCollId)
  /\ collections[DefaultCollId].slug = DefaultSlug
  /\ collections[DefaultCollId].st = "synced"
  /\ collections["c2"].ex

\* C16: once deleteCollection has soft-deleted a collection, no item that is
\* not deleted references it, also when addItem ran while the deletion was
\* under way.
C16_NoItemInDeletedCollection ==
  \A c \in CollIds :
     (collections[c].ex /\ collections[c].del) =>
        \A i \in ItemIds :
           (items[i].ex /\ ~items[i].del) => items[i].coll # c

\* C17: every item-tag row of the local store references an item and a tag
\* that both have a row in the local store.
C17_NoDanglingLinks ==
  \A l \in Links :
     itemTags[l] # "none" => (items[l[1]].ex /\ tags[l[2]].ex)

\* C18: no two tags of the local store that are not deleted have the same
\* slug.
C18_TagSlugsUnique ==
  \A t \in TagIds : \A u \in TagIds \ {t} :
     (tags[t].ex /\ ~tags[t].del /\ tags[u].ex /\ ~tags[u].del)
        => tags[t].slug # tags[u].slug

\* C19: no item, collection or tag of the local store is soft-deleted and
\* in state synced: a soft-deleted entity stays collectable as a deletion
\* until an acknowledgement purges it.
C19_DeletedNeverSynced ==
  /\ \A i \in ItemIds : items[i].ex => ~(items[i].del /\ items[i].st = "synced")
  /\ \A c \in CollIds :
       collections[c].ex => ~(collections[c].del /\ collections[c].st = "synced")
  /\ \A t \in TagIds : tags[t].ex => ~(tags[t].del /\ tags[t].st = "synced")

\* The deleted partition of the acknowledgement an engine applies in this
\* step.
AckDeleted(e) ==
  IF pc[e] = "send" /\ cyc'[e].log = Append(cyc[e].log, "ok")
    THEN ServerPost(chunks[e][idx[e]]).ack.deleted
    ELSE [items |-> {}, collections |-> {}, tags |-> {}]

\* C20: an item, collection or tag leaves the local store only in a step
\* that applies an acknowledgement listing it as deleted, and it is
\* soft-deleted when it leaves.
C20_PurgeOnlyAcknowledgedTombstones ==
  [][/\ \A i \in ItemIds :
          (items[i].ex /\ ~items'[i].ex) =>
             /\ items[i].del
             /\ \E e \in Engines : i \in AckDeleted(e).items
     /\ \A c \in CollIds :
          (collections[c].ex /\ ~collections'[c].ex) =>
             /\ collections[c].del
             /\ \E e \in Engines : c \in AckDeleted(e).collections
     /\ \A t \in TagIds :
          (tags[t].ex /\ ~tags'[t].ex) =>
             /\ tags[t].del
             /\ \E e \in Engines : t \in AckDeleted(e).tags]_vars

\* C21: a local write to an item, collection or tag (any write that is not
\* a step of a sync cycle) gives the row a later updatedAt and leaves it
\* pending, unless the row was syncing when it was written.
C21_LocalWritesArePending ==
  [][~CycleStep =>
       /\ \A i \in ItemIds :
            (items'[i].ex /\ items'[i] # items[i]) =>
               /\ items'[i].upd > items[i].upd
               /\ items'[i].st = "pending" \/ items[i].st = "syncing"
       /\ \A c \in CollIds :
            (collections'[c].ex /\ collections'[c] # collections[c]) =>
               /\ collections'[c].upd > collections[c].upd
               /\ collections'[c].st = "pending" \/ collections[c].st = "syncing"
       /\ \A t \in TagIds :
            (tags'[t].ex /\ tags'[t] # tags[t]) =>
               /\ tags'[t].upd > tags[t].upd
               /\ tags'[t].st = "pending" \/ tags[t].st = "syncing"]_vars

\* C22: a push or pull of this user never creates, changes, deletes or
\* returns a row of another user, whatever ids the chunk holds: every step
\* of a sync cycle leaves the other user's rows as they were, and no pulled
\* id is a row of the other user.
C22_OwnerScoping ==
  [][CycleStep =>
       /\ otherItems' = otherItems
       /\ otherItemTags' = otherItemTags
       /\ \A i \in ServerGet(0).items : ~otherItems[i].ex]_vars

\* The chunks of the cycle in flight are the splitter's output for the batch
\* the cycle collected.
HasSplit(e) == pc[e] \in {"send", "pull"}
ChunkTotal(c) ==
  Len(c.items) + Cardinality(c.collections) + Cardinality(c.tags)
    + Cardinality(c.itemTags)

\* C23: in every chunk the splitter returns, the numbers of items,
\* collections, tags and links sum to at most the chunk size.
C23_ChunkWithinSize ==
  \A e \in Engines :
    HasSplit(e) =>
      \A k \in 1..Len(chunks[e]) : ChunkTotal(chunks[e][k]) <= ChunkSize

\* C24: a batch whose total is at most the chunk size comes back unchanged as
\* one chunk; otherwise every chunk after the first carries no collections,
\* tags or deletions, and its links are links of its own items, among them
\* every link of its items to a tag the first chunk carries.
C24_FirstChunkCarriesMetadata ==
  \A e \in Engines :
    HasSplit(e) =>
      IF ChunkTotal(payload[e]) <= ChunkSize
        THEN chunks[e] = <<payload[e]>>
        ELSE \A k \in 2..Len(chunks[e]) :
               LET c == chunks[e][k]
                   own == {l \in payload[e].itemTags : l[1] \in SeqIds(c.items)}
               IN /\ c.collections = {}
                  /\ c.tags = {}
                  /\ c.deletions = EmptyPayload.deletions
                  /\ c.itemTags \subseteq own
                  /\ {l \in own : l[2] \in {t.id : t \in payload[e].tags}}
                       \subseteq c.itemTags

\* C25: each item, collection, tag, link and deletion id of the collected
\* batch is in exactly one chunk.
InChunks(e, has(_)) == Cardinality({k \in 1..Len(chunks[e]) : has(chunks[e][k])}) = 1
C25_ChunkingLosesNothing ==
  \A e \in Engines :
    HasSplit(e) =>
      LET p == payload[e]
      IN /\ \A i \in SeqIds(p.items) :
              LET has(c) == i \in SeqIds(c.items) IN InChunks(e, has)
         /\ \A x \in p.collections :
              LET has(c) == x \in c.collections IN InChunks(e, has)
         /\ \A x \in p.tags :
              LET has(c) == x \in c.tags IN InChunks(e, has)
         /\ \A x \in p.itemTags :
              LET has(c) == x \in c.itemTags IN InChunks(e, has)
         /\ \A x \in p.deletions.itemIds :
              LET has(c) == x \in c.deletions.itemIds IN InChunks(e, has)
         /\ \A x \in p.deletions.collectionIds :
              LET has(c) == x \in c.deletions.collectionIds IN InChunks(e, has)
         /\ \A x \in p.deletions.tagIds :
              LET has(c) == x \in c.deletions.tagIds IN InChunks(e, has)

\* C26: when no cycle holds the guard, no item, collection, tag or link of
\* the local store is in state syncing: a cycle that has returned left each
\* entity it marked synced, in error or pending again.
C26_NothingLeftSyncing ==
  (\A e \in Engines : ~syncInProgress[e]) =>
     /\ \A i \in ItemIds : items[i].ex => items[i].st # "syncing"
     /\ \A c \in CollIds : collections[c].ex => collections[c].st # "syncing"
     /\ \A t \in TagIds : tags[t].ex => tags[t].st # "syncing"
     /\ \A l \in Links : itemTags[l] # "syncing"

\* C27: the step of a cycle that marks the batch leaves every entity of the
\* batch in state syncing: its items, collections, tags and links, and the
\* soft-deleted items, collections and tags listed under deletions.
C27_BatchSyncingBeforeSend ==
  [][\A e \in Engines :
       (pc[e] = "mark" /\ pc'[e] \in {"send", "pull"}) =>
          LET p == payload[e]
          IN /\ \A i \in SeqIds(p.items) \cup p.deletions.itemIds :
                  items'[i].ex => items'[i].st = "syncing"
             /\ \A c \in {x.id : x \in p.collections} \cup p.deletions.collectionIds :
                  collections'[c].ex => collections'[c].st = "syncing"
             /\ \A t \in {x.id : x \in p.tags} \cup p.deletions.tagIds :
                  tags'[t].ex => tags'[t].st = "syncing"
             /\ \A l \in p.itemTags :
                  itemTags'[l] # "none" => itemTags'[l] = "syncing"]_vars

\* C28: the batch a cycle collects holds exactly the rows in state pending or
\* error: the ones not soft-deleted as items, collections, tags and links
\* (each item once, with the row's fields), the soft-deleted ones as deletion
\* ids; no synced or syncing row is in it, and collecting changes no row.
Collectable(row) == row.ex /\ (row.st = "pending" \/ row.st = "error")
Collects(e) == pc[e] = "gather" /\ pc'[e] \in {"mark", "pull0"}
Applies(e) == pc[e] = "send" /\ cyc'[e].log = Append(cyc[e].log, "ok")
IsSynced(row) == row.st = "synced" /\ row.lsa = now /\ ~row.err
C29_AckMarksSynced ==
  [][\A e \in Engines :
       Applies(e) =>
         LET ack == ServerPost(chunks[e][idx[e]]).ack
         IN /\ \A i \in ItemIds :
                 IF i \in ack.deleted.items THEN TRUE
                 ELSE IF i \in ack.synced.items /\ items[i].ex
                   THEN IsSynced(items'[i])
                 ELSE items'[i] = items[i]
            /\ \A c \in CollIds :
                 IF c \in ack.deleted.collections THEN TRUE
                 ELSE IF c \in ack.synced.collections /\ collections[c].ex
                   THEN IsSynced(collections'[c])
                 ELSE collections'[c] = collections[c]
            /\ \A t \in TagIds :
                 IF t \in ack.deleted.tags THEN TRUE
                 ELSE IF t \in ack.synced.tags /\ tags[t].ex
                   THEN IsSynced(tags'[t])
                 ELSE tags'[t] = tags[t]
            /\ \A l \in Links :
                 IF l \in ack.synced.itemTags /\ itemTags[l] # "none"
                   THEN itemTags'[l] = "synced"
                   ELSE itemTags'[l] = itemTags[l]
            /\ errors'[e] = errors[e]
            /\ \/ warnings'[e] = warnings[e]
               \/ warnings'[e] = Append(warnings[e], "conflicts detected")
            /\ now' = now]_vars

\* A response with conflicts has been applied to a chunk whose item was in
\* error from an earlier cycle: the item is synced without an error, the
\* cycle has a warning and no error.
C29_Witness ==
  \E e \in Engines :
    /\ syncInProgress[e]
    /\ warnings[e] # << >>
    /\ errors[e] = << >>
    /\ syncQueue # << >>
    /\ \E i \in ItemIds :
         /\ i \in SeqIds(syncQueue[1].data.items)
         /\ items[i].ex /\ items[i].st = "synced" /\ items[i].lsa = now
         /\ ~items[i].err

\* C30: when a chunk of a cycle fails, the cycle moves on past it without
\* sending it again, every item, collection, tag and link of the chunk is in
\* state error (items, collections and tags with the error message), and
\* the retry queue has gained exactly one row: the chunk with retryCount 0,
\* maxRetries from the options and nextRetryAt = now + retryDelayMs.
Fails(e) == pc[e] = "send" /\ cyc'[e].log = Append(cyc[e].log, "fail")
InError(row) == row.st = "error" /\ row.err
C30_FailedChunkIsQueuedOnce ==
  [][\A e \in Engines :
       Fails(e) =>
         LET c == chunks[e][idx[e]]
         IN /\ \A i \in SeqIds(c.items) : items[i].ex => InError(items'[i])
            /\ \A x \in c.collections :
                 collections[x.id].ex => InError(collections'[x.id])
            /\ \A x \in c.tags : tags[x.id].ex => InError(tags'[x.id])
            /\ \A l \in c.itemTags : itemTags[l] # "none" => itemTags'[l] = "error"
            /\ Len(syncQueue') = Len(syncQueue) + 1
            /\ SubSeq(syncQueue', 1, Len(syncQueue)) = syncQueue
            /\ LET row == syncQueue'[Len(syncQueue')]
               IN /\ row.data = c
                  /\ row.retryCount = 0
                  /\ row.maxRetries = MaxRetriesOpt
                  /\ row.nextRetryAt = now + RetryDelayMs
            /\ \/ pc'[e] = "send" /\ idx'[e] = idx[e] + 1
               \/ pc'[e] = "pull" /\ idx[e] = Len(chunks[e])]_vars

\* C31: a response that lacks one of the seven identifier arrays is a chunk
\* failure: the step that handles it marks no row synced and purges none,
\* leaves the chunk's items, collections, tags and links in error, appends
\* one retry row and records an error, so that the cycle returns
\* success = FALSE.
Malformed(e) ==
  /\ pc[e] = "send"
  /\ \E f \in AckFields : \E s \in BadShapes : ChunkMalformed(e, f, s)
C31_InvalidAckIsChunkFailure ==
  [][\A e \in Engines :
       Malformed(e) =>
         LET c == chunks[e][idx[e]]
         IN /\ \A i \in ItemIds :
                 /\ items[i].ex => items'[i].ex
                 /\ items'[i].st = "synced" => items[i].st = "synced"
                 /\ i \in SeqIds(c.items) /\ items[i].ex => items'[i].st = "error"
            /\ \A x \in CollIds :
                 /\ collections[x].ex => collections'[x].ex
                 /\ collections'[x].st = "synced" => collections[x].st = "synced"
            /\ \A t \in TagIds :
                 /\ tags[t].ex => tags'[t].ex
                 /\ tags'[t].st = "synced" => tags[t].st = "synced"
            /\ \A l \in Links : itemTags'[l] = "synced" => itemTags[l] = "synced"
            /\ \A y \in c.collections :
                 collections[y.id].ex => collections'[y.id].st = "error"
            /\ \A y \in c.tags : tags[y.id].ex => tags'[y.id].st = "error"
            /\ \A l \in c.itemTags : itemTags[l] # "none" => itemTags'[l] = "error"
            /\ Len(syncQueue') = Len(syncQueue) + 1
            /\ Len(errors'[e]) = Len(errors[e]) + 1]_vars

\* C32: the steps of one cycle are strictly ordered.  Collecting starts only
\* from the retry pass, which leaves no due row in the queue; while chunk
\* number idx is being sent every earlier chunk has its outcome recorded
\* (reconciled or failed), one chunk is handled per step; and the pull after
\* the chunks starts only when every chunk has its outcome.
NoDueRow(q) == \A k \in 1..Len(q) : ~(q[k].nextRetryAt < now)
C32_StepsAreOrdered ==
  /\ [](\A e \in Engines :
          /\ pc[e] = "send" => /\ idx[e] \in 1..Len(chunks[e])
                               /\ Len(cyc[e].log) = idx[e] - 1
          /\ pc[e] = "pull" => Len(cyc[e].log) = Len(chunks[e]))
  /\ [][\A e \in Engines :
          /\ pc'[e] = "gather" /\ pc[e] # "gather"
               => pc[e] = "retry" /\ NoDueRow(syncQueue')
          /\ pc'[e] \in {"mark", "pull0"} /\ pc[e] # pc'[e] => pc[e] = "gather"
          /\ pc'[e] = "send" /\ (pc[e] # "send" \/ idx'[e] # idx[e])
               => \/ pc[e] = "mark" /\ idx'[e] = 1
                  \/ /\ pc[e] = "send"
                     /\ idx'[e] = idx[e] + 1
                     /\ Len(cyc'[e].log) = idx[e]
          /\ pc'[e] = "pull" /\ pc[e] # "pull"
               => \/ pc[e] = "mark" /\ Len(chunks'[e]) = 0
                  \/ /\ pc[e] = "send"
                     /\ idx[e] = Len(chunks[e])
                     /\ Len(cyc'[e].log) = Len(chunks[e])]_vars

\* A cycle of two chunks, the first failed and the second acknowledged, has
\* reached its pull.
C32_Witness ==
  /\ pc["e1"] = "pull"
  /\ Len(chunks["e1"]) = 2
  /\ cyc["e1"].log = <<"fail", "ok">>

\* C33: a pull with since = W returns every item, collection and tag of the
\* owner whose updatedAt is later than W, with the links of the returned
\* items, and nothing older; a tag modified after W is returned even when
\* it was created before W.
C33_PullReturnsEveryChange ==
  \A e \in Engines :
    pc[e] \in {"pull", "pull0"} =>
      \E W \in {getLastSyncTimestamp} :
      \E g \in {ServerGet(W)} :
        /\ g.items = {i \in ItemIds : rItems[i].ex /\ rItems[i].upd > W}
        /\ g.collections =
             {c \in CollIds : rCollections[c].ex /\ rCollections[c].upd > W}
        /\ g.tags = {t \in TagIds : rTags[t].ex /\ rTags[t].upd > W}
        /\ g.itemTags = {l \in rItemTags : l[1] \in g.items}

\* C34: the watermark never hides a remote change for good.  With sync
\* cycles that keep running and all succeed, every item version the other
\* device has pushed is eventually in the local store, or the local store
\* holds a newer one, also when the version's updatedAt is not later than
\* the local watermark at the time it reaches the remote.
C34_RemoteChangeEventuallyPulled ==
  \A i \in ItemIds :
    [](rItems[i].ex => <>(items[i].ex /\ items[i].upd >= rItems[i].upd))

\* C35: a local mutation of an item that is in flight is not lost.  When the
\* acknowledgement of a chunk is applied and an item of the chunk has been
\* written locally since it was marked syncing (the write has set it back to
\* pending, and it is deleted or its updatedAt is no longer the one sent),
\* the item is not marked synced: it stays collectable, so that a later
\* cycle transmits the mutation.
MutatedInFlight(sent) ==
  /\ items[sent.id].ex
  /\ items[sent.id].st = "pending"
  /\ items[sent.id].del \/ items[sent.id].upd # sent.upd
C35_InFlightMutationNotLost ==
  [][\A e \in Engines :
       pc[e] = "send" /\ cyc'[e].log = Append(cyc[e].log, "ok") =>
         \A k \in 1..Len(chunks[e][idx[e]].items) :
           LET sent == chunks[e][idx[e]].items[k]
           IN MutatedInFlight(sent) =>
                /\ items'[sent.id].ex
                /\ items'[sent.id].st \in {"pending", "error"}]_vars

\* C36: a chunk whose items name a collection that is neither in the chunk
\* nor a collection of the owner on the remote is applied: every such item
\* is stored under the owner's default collection, which is created when
\* there is none, for any number of such items in the chunk, and the remote
\* is left with exactly one default collection.
RemoteDefaults(rc) == {c \in CollIds : rc[c].ex /\ rc[c].isDefault}
C36_OrphanItemsGoToOneDefault ==
  [][\A S \in SUBSET ItemIds :
       OrphanPush(S) =>
         /\ \A i \in S : /\ rItems'[i].ex
                         /\ rItems'[i].coll \in RemoteDefaults(rCollections')
         /\ Cardinality(RemoteDefaults(rCollections')) = 1]_vars

\* C37: concurrent ensureDefaultCollection calls are deduplicated.  The
\* local store never holds two default collections; callers wait only on a
\* promise that is in the map, and the map holds one exactly while the
\* transaction has not settled; when it settles, a store that had a default
\* is left as it was and one that had none gains at most the one default,
\* every waiting caller gets the same outcome (the default collection of the
\* store, or the rejection), and the latch is cleared.
DefaultsOf(cs) == {c \in CollIds : cs[c].ex /\ cs[c].isDefault /\ ~cs[c].del}
C37_EnsureDefaultIsDeduplicated ==
  /\ [](/\ Cardinality(DefaultsOf(collections)) <= 1
        /\ ensure.latch <=> ensure.running
        /\ ensure.waiters # {} => ensure.latch)
  /\ [][ensure.running /\ ~ensure'.running =>
          /\ ~ensure'.latch
          /\ ensure'.waiters = {}
          /\ HasDefault(collections) => collections' = collections
          /\ \A c \in CollIds :
               collections'[c] # collections[c] => DefaultsOf(collections') = {c}
          /\ \E v \in CollIds \cup {"rejected"} :
               /\ \A k \in ensure.waiters : ensure'.got[k] = v
               /\ v \in CollIds => DefaultsOf(collections') = {v}
               /\ v = "rejected" => collections' = collections]_vars

\* Two callers were handed the same promise and both received the default
\* collection, which the transaction inserted.
C37_Witness ==
  /\ ensure.served = {"a", "b"}
  /\ ensure.got["a"] = DefaultCollId
  /\ ensure.got["b"] = DefaultCollId
  /\ ~ensure.latch
  /\ DefaultsOf(collections) = {DefaultCollId}
  /\ minted = {}

C39_RenamePropagates ==
  \A e \in Engines :
    pc[e] = "send" =>
      \A col \in chunks[e][idx[e]].collections :
        (/\ ~col.isDefault
         /\ rCollections[col.id].ex
         /\ rCollections[col.id].slug # col.slug)
          => \E r \in {ServerPost(chunks[e][idx[e]])} :
               /\ r.ok
               /\ r.rCollections[col.id].slug = col.slug

\* C40: a push sets a local link synced only if the remote holds that link
\* once it has processed the chunk: every pair a link of which becomes
\* synced when an acknowledgement is applied is in the remote link table,
\* also when the pair's item or tag is not part of the same chunk.
C40_SyncedLinkIsOnRemote ==
  [][\A e \in Engines :
       pc[e] = "send" /\ cyc'[e].log = Append(cyc[e].log, "ok") =>
         \A l \in Links :
           itemTags[l] # "synced" /\ itemTags'[l] = "synced" => l \in rItemTags']_vars

====
